---- MODULE Spec2Model ----
(***************************************************************************)
(* Spike bot of percyitchy/xleaderboard (src/backend/bots/spike):          *)
(* connection workers stamp trades and put them on the event queue, the    *)
(* EventProcessor takes them off, keeps one sliding window per instrument  *)
(* and hands spike alerts to the signal store and the broadcast manager.   *)
(*                                                                         *)
(* Units: prices are in hundredths (0.98 is 98), sizes are whole shares,   *)
(* so usd_value = size * price is in cents; clock readings are seconds.    *)
(***************************************************************************)
EXTENDS Integers, Sequences, FiniteSets, TLC

\* ------------------------------------------------------------------ config
MIN_BUY_USD == 2500
SPIKE_THRESHOLD == 4
TIME_WINDOW == 120
\* config.py sets 0.98; prices are counted in hundredths
MAX_SIGNAL_PRICE == 98
REFETCH_INTERVAL == 1200
\* the sleep of the status loop, in seconds
STATUS_SLEEP == 30

\* ------------------------------------------------------------------ bounds
\* trades that pass handle_spike's filters in one run
MaxEvents == 8

\* trades that pass the filters in one run of the two-instrument specification
MaxPairEvents == 4

\* markets of the catalog
MaxMarkets == 4
\* consecutive raising connection attempts of one worker
MaxAttempts == 3
\* ids per chunk; config.py sets 3000, the pool is checked at a small size
CHUNK_SIZE == 3
\* slots of the event queue; main.py sets 10000
maxsize == 2
\* messages the workers receive in a run of the queue
MaxMessages == 4
\* messages the worker receives in a run of the message filter
MaxInbound == 3
\* length of the id lists split_chunks is called with
MaxLen == 4
\* the clock reading after which the status loop is not followed further
MaxTime == 2490
\* pages of the catalog that hold markets; the offsets from MaxPages on are all
\* past the last page and stand for one another
MaxPages == 2
\* page workers of fetch_all_markets
concurrency == 2
\* attempts of fetch_with_retry on one page
max_retries == 2
\* trades that pass the filters before the worker of the failing-sinks
\* specification stops sending
MaxSinkEvents == 9
\* trades that pass the filters in one run of the sliding-window specification
MaxDropEvents == 16
\* trades that pass the filters before the workers of the event-loop
\* specification stop sending trades of mapped instruments
MaxLoopEvents == 4

\* the clock readings of a run: the start, one second later, and a whole window
\* after that
ClockValues == {0, 1, TIME_WINDOW + 1}

\* ------------------------------------------------------------------ state
VARIABLES
  now,             \* time.time()
  event,           \* the event run_async took off the queue last (none yet: asset_id 0)
  asset_map,       \* EventProcessor.asset_map: asset_id -> market info
  asset_counters,  \* EventProcessor.asset_counters: asset_id -> counter
  spikes,          \* records handed to signal_store.add_spike, in order
  broadcasts,      \* records handed to ws_manager.broadcast, in order
  accepted,        \* history: per asset_id, the trades that passed handle_spike's filters
  alerted,         \* history: per asset_id, the counts of the alerts emitted since
                   \* pruning last took its count from the threshold or more to less
  rearmed          \* history: per asset_id, pruning took the count below the threshold
                   \* and the count has not reached it again

VARIABLES
  bot_pc,             \* SpikeBot: "init" before run() has started the workers,
                      \* "running" in the status loop
  filtered_markets,   \* SpikeBot.filtered_markets, the conditionIds in order
  current_asset_ids,  \* SpikeBot.current_asset_ids
  workers,            \* SpikeBot.workers; worker_id is the index minus one
  rebalance           \* history: the last call of subscribe_new_assets

VARIABLES
  queue,              \* the event queue shared by the workers and the engine
  processor_task,     \* the task running run_async: "running" or "cancelled"
  inbound,            \* the last message a worker's on_message was called with
  received,           \* history: how many messages on_message was called with
  arrivals,           \* history: the events on_message put, in order of arrival
  handled_log,        \* history: the events run_async took off the queue, in order
  call                \* the last call of a pure function: name, arguments, result

VARIABLES
  last_refetch_time,  \* SpikeBot.last_refetch_time
  refetched,          \* history: the clock readings at which the status loop called
                      \* refetch_and_update, the last two of them
  loop                \* the asyncio event loop the bot's tasks run on: the state of
                      \* each task, the call of add_spike the engine is in, and the
                      \* broadcast tasks created and not yet run

engineVars == <<asset_counters, spikes, broadcasts>>
queueVars == <<queue, processor_task, inbound, received, arrivals, handled_log>>
historyVars == <<accepted, alerted, rearmed>>
poolVars == <<bot_pc, filtered_markets, current_asset_ids, workers, rebalance>>
loopVars == <<last_refetch_time, refetched, loop>>
vars == <<now, event, asset_map, engineVars, historyVars, poolVars, queueVars, call, loopVars>>

\* the catalog: market m lists two instrument ids of its own; market 0 lists an
\* instrument that market 1 lists and one that market 2 lists
MarketAssetIds(m) == IF m = 0 THEN <<2, 3>> ELSE <<2 * m - 1, 2 * m>>

\* the outcomes the catalog lists for market m: market 0 comes without any
Outcomes(m) == IF m = 0 THEN <<>> ELSE <<"Yes", "No">>

\* instrument ids that appear in messages: those of market 1 and one of no market
AssetIds == {1, 2, 3}

\* the trades a message may carry
TradeKinds ==
  { [side |-> "BUY",  size |-> 3000, price |-> 98],
    [side |-> "BUY",  size |-> 2500, price |-> 100],
    [side |-> "BUY",  size |-> 2499, price |-> 100],
    [side |-> "SELL", size |-> 3000, price |-> 98] }

\* ------------------------------------------------------------------ floats
\* Sizes, prices and amounts are Python floats: integers here, and NaN, the
\* float that float("nan") and the JSON literal NaN yield. Every comparison
\* with NaN is false and every sum or product with NaN is NaN.
NaN == -1

Lt(x, y) == x # NaN /\ y # NaN /\ x < y
Le(x, y) == x # NaN /\ y # NaN /\ x <= y
Gt(x, y) == x # NaN /\ y # NaN /\ x > y
Ge(x, y) == x # NaN /\ y # NaN /\ x >= y
Add(x, y) == IF x = NaN \/ y = NaN THEN NaN ELSE x + y
Mul(x, y) == IF x = NaN \/ y = NaN THEN NaN ELSE x * y

\* ------------------------------------------------------------------ engine
build_asset_to_market_map(markets) ==
  LET ids == UNION { {MarketAssetIds(markets[k])[i] : i \in 1..2} : k \in 1..Len(markets) }
      owner(a) == CHOOSE k \in 1..Len(markets) :
                    /\ \E i \in 1..2 : MarketAssetIds(markets[k])[i] = a
                    /\ \A j \in (k + 1)..Len(markets) :
                         \A i \in 1..2 : MarketAssetIds(markets[j])[i] # a
      index(a, m) == CHOOSE i \in 1..2 :
                       /\ MarketAssetIds(m)[i] = a
                       /\ \A j \in (i + 1)..2 : MarketAssetIds(m)[j] # a
  IN  [a \in ids |-> [market_id |-> markets[owner(a)],
                      outcome_index |-> index(a, markets[owner(a)]) - 1]]

\* parse_event: <<>> stands for None, <<trade>> for a trade; an absent or empty
\* asset_id is 0
parse_event(ev) ==
  IF ev.asset_id = 0 THEN <<>>
  ELSE IF Le(ev.size, 0) THEN <<>>
  ELSE IF Le(ev.price, 0) THEN <<>>
  ELSE IF ev.side = "" THEN <<>>
  ELSE << [asset_id |-> ev.asset_id,
        size |-> ev.size,
        price |-> ev.price,
        side |-> ev.side,
        usd_value |-> Mul(ev.size, ev.price),
        timestamp |-> ev.ts] >>

\* a fresh entry of the defaultdict
NewCounter(t) ==
  [recent_trades |-> <<>>, count |-> 0, last_activity |-> t, last_alert_count |-> 0]

\* mutant: a trade aged exactly TIME_WINDOW is popped too
RECURSIVE PopOld_AtWindow(_, _)
PopOld_AtWindow(trades, current_time) ==
  IF trades # <<>> /\ (current_time - Head(trades).timestamp) >= TIME_WINDOW
  THEN PopOld_AtWindow(Tail(trades), current_time)
  ELSE trades

RECURSIVE PopOld(_, _)
PopOld(trades, current_time) ==
  IF trades # <<>> /\ (current_time - Head(trades).timestamp) > TIME_WINDOW
  THEN PopOld(Tail(trades), current_time)
  ELSE trades

\* variant: last_alert_count is reset whenever pruning removes a trade
prune_old_trades_ResetOnAnyDrop(counter, current_time) ==
  LET trades == PopOld(counter.recent_trades, current_time)
  IN  [counter EXCEPT
         !.recent_trades = trades,
         !.count = Len(trades),
         !.last_alert_count =
            IF Len(trades) < Len(counter.recent_trades) THEN 0 ELSE @]

\* variant: last_alert_count is reset only when the window is empty
prune_old_trades_ResetWhenEmpty(counter, current_time) ==
  LET trades == PopOld(counter.recent_trades, current_time)
  IN  [counter EXCEPT
         !.recent_trades = trades,
         !.count = Len(trades),
         !.last_alert_count = IF Len(trades) = 0 THEN 0 ELSE @]

\* mutant: last_alert_count is not reset when the count falls below the threshold
prune_old_trades_NoReset(counter, current_time) ==
  LET trades == PopOld(counter.recent_trades, current_time)
  IN  [counter EXCEPT !.recent_trades = trades, !.count = Len(trades)]

prune_old_trades(counter, current_time) ==
  LET trades == PopOld(counter.recent_trades, current_time)
      old_count == counter.count
      new_count == Len(trades)
  IN  [counter EXCEPT
         !.recent_trades = trades,
         !.count = new_count,
         !.last_alert_count =
            IF old_count >= SPIKE_THRESHOLD /\ new_count < SPIKE_THRESHOLD
            THEN 0 ELSE @]

RECURSIVE SumUsd(_)
SumUsd(trades) ==
  IF trades = <<>> THEN 0 ELSE Add(Head(trades).usd_value, SumUsd(Tail(trades)))

\* mutant: a price equal to MAX_SIGNAL_PRICE is suppressed too
trigger_alert_SuppressAtMax(asset_id, market_info, counter, t) ==
  LET price == counter.recent_trades[Len(counter.recent_trades)].price
  IN  IF Ge(price, MAX_SIGNAL_PRICE)
      THEN <<>>
      ELSE << [market_id |-> market_info.market_id,
               outcome |-> market_info.outcome_index,
               price |-> price,
               timestamp |-> t,
               asset_id |-> asset_id,
               count |-> counter.count,
               amount_usd |-> SumUsd(counter.recent_trades),
               type |-> "spike"] >>

\* mutant: the alert takes the price of the oldest trade of the window
trigger_alert_FirstPrice(asset_id, market_info, counter, t) ==
  LET price == counter.recent_trades[1].price
  IN  IF Gt(price, MAX_SIGNAL_PRICE)
      THEN <<>>
      ELSE << [market_id |-> market_info.market_id,
               outcome |-> market_info.outcome_index,
               price |-> price,
               timestamp |-> t,
               asset_id |-> asset_id,
               count |-> counter.count,
               amount_usd |-> SumUsd(counter.recent_trades),
               type |-> "spike"] >>

\* the records trigger_alert hands to the sinks: none when the price is too high
trigger_alert(asset_id, market_info, counter, t) ==
  LET total_usd == SumUsd(counter.recent_trades)
      price == counter.recent_trades[Len(counter.recent_trades)].price
  IN  IF Gt(price, MAX_SIGNAL_PRICE)
      THEN <<>>
      ELSE << [market_id |-> market_info.market_id,
               outcome |-> market_info.outcome_index,
               price |-> price,
               timestamp |-> t,
               asset_id |-> asset_id,
               count |-> counter.count,
               amount_usd |-> total_usd,
               type |-> "spike"] >>

\* trigger_alert raises IndexError at market_info['outcomes'][outcome_index]
Raises(market_info) ==
  market_info.outcome_index + 1 > Len(Outcomes(market_info.market_id))

\* mutant: every count above the last alerted one fires
AlertCondition_NoModulo(counter) ==
  /\ counter.count >= SPIKE_THRESHOLD
  /\ counter.count > counter.last_alert_count

\* mutant: a multiple of the threshold fires again
AlertCondition_NoDedup(counter) ==
  /\ counter.count >= SPIKE_THRESHOLD
  /\ counter.count % SPIKE_THRESHOLD = 0

AlertCondition(counter) ==
  /\ counter.count >= SPIKE_THRESHOLD
  /\ counter.count > counter.last_alert_count
  /\ counter.count % SPIKE_THRESHOLD = 0

\* variant: last_alert_count is set only when trigger_alert hands a record on
HandleAccepted_KeepsCrossing(counter0, asset_id, market_info, trade, t) ==
  LET appended == [counter0 EXCEPT
                     !.recent_trades = Append(@, trade),
                     !.last_activity = t]
      pruned == prune_old_trades(appended, t)
      alerts == IF AlertCondition(pruned)
                THEN trigger_alert(asset_id, market_info, pruned, t) ELSE <<>>
  IN  IF alerts # <<>>
      THEN [counter |-> [pruned EXCEPT !.last_alert_count = pruned.count],
            alerts |-> alerts, raised |-> FALSE]
      ELSE [counter |-> pruned, alerts |-> <<>>, raised |-> FALSE]

\* handle_spike for a trade that passed its two filters, at time t: the counter
\* after the call, the records handed to the sinks, and whether the call raised.
\* When trigger_alert raises, the assignment to last_alert_count that follows
\* it is not reached.
HandleAccepted(counter0, asset_id, market_info, trade, t) ==
  LET appended == [counter0 EXCEPT
                     !.recent_trades = Append(@, trade),
                     !.last_activity = t]
      pruned == prune_old_trades(appended, t)
  IN  IF AlertCondition(pruned)
      THEN IF Raises(market_info)
           THEN [counter |-> pruned, alerts |-> <<>>, raised |-> TRUE]
           ELSE [counter |-> [pruned EXCEPT !.last_alert_count = pruned.count],
                 alerts |-> trigger_alert(asset_id, market_info, pruned, t),
                 raised |-> FALSE]
      ELSE [counter |-> pruned, alerts |-> <<>>, raised |-> FALSE]

\* mutant: a buy of exactly MIN_BUY_USD is rejected
Rejected_AtMin(trade) ==
  trade.side # "BUY" \/ Le(trade.usd_value, MIN_BUY_USD * 100)

Rejected(trade) ==
  trade.side # "BUY" \/ Lt(trade.usd_value, MIN_BUY_USD * 100)

\* variant: the record goes to the broadcast sink twice
handle_spike_BroadcastTwice(asset_id, trade) ==
  IF Rejected(trade) \/ asset_id \notin DOMAIN asset_map
  THEN UNCHANGED engineVars
  ELSE LET counter0 == IF asset_id \in DOMAIN asset_counters
                       THEN asset_counters[asset_id] ELSE NewCounter(now)
           r == HandleAccepted(counter0, asset_id, asset_map[asset_id], trade, now)
       IN  /\ asset_counters' =
                [a \in DOMAIN asset_counters \cup {asset_id} |->
                   IF a = asset_id THEN r.counter ELSE asset_counters[a]]
           /\ spikes' = spikes \o r.alerts
           /\ broadcasts' = broadcasts \o r.alerts \o r.alerts

handle_spike(asset_id, trade) ==
  IF Rejected(trade) \/ asset_id \notin DOMAIN asset_map
  THEN UNCHANGED engineVars
  ELSE LET counter0 == IF asset_id \in DOMAIN asset_counters
                       THEN asset_counters[asset_id] ELSE NewCounter(now)
           r == HandleAccepted(counter0, asset_id, asset_map[asset_id], trade, now)
       IN  /\ asset_counters' =
                [a \in DOMAIN asset_counters \cup {asset_id} |->
                   IF a = asset_id THEN r.counter ELSE asset_counters[a]]
           /\ spikes' = spikes \o r.alerts
           /\ broadcasts' = broadcasts \o r.alerts

\* ------------------------------------------------------------------ history
WindowIn(counters, a) ==
  IF a \in DOMAIN counters THEN counters[a].recent_trades ELSE <<>>

CountIn(counters, a) ==
  IF a \in DOMAIN counters THEN counters[a].count ELSE 0

LacIn(counters, a) ==
  IF a \in DOMAIN counters THEN counters[a].last_alert_count ELSE 0

\* the step handled a trade of instrument a that passed handle_spike's filters
Handled(a) ==
  /\ now' = now
  /\ event'.asset_id = a
  /\ a \in DOMAIN asset_map
  /\ event'.side = "BUY"
  /\ ~Lt(Mul(event'.size, event'.price), MIN_BUY_USD * 100)

\* the step handed one record to both sinks, for instrument a
Emitted(a) ==
  /\ Len(spikes') = Len(spikes) + 1
  /\ SubSeq(spikes', 1, Len(spikes)) = spikes
  /\ spikes'[Len(spikes')].asset_id = a
  /\ broadcasts' = Append(broadcasts, spikes'[Len(spikes')])

NoAlert == spikes' = spikes /\ broadcasts' = broadcasts

\* the step's pruning took a's count from the threshold or more to less
Dropped(a) ==
  /\ CountIn(asset_counters, a) >= SPIKE_THRESHOLD
  /\ CountIn(asset_counters', a) < SPIKE_THRESHOLD

History ==
  /\ accepted' = [a \in AssetIds |-> IF Handled(a) THEN accepted[a] + 1 ELSE accepted[a]]
  /\ alerted' = [a \in AssetIds |->
                   LET kept == IF Dropped(a) THEN {} ELSE alerted[a]
                   IN  IF Emitted(a) THEN kept \cup {spikes'[Len(spikes')].count} ELSE kept]
  /\ rearmed' = [a \in AssetIds |->
                   \/ Dropped(a)
                   \/ rearmed[a] /\ CountIn(asset_counters', a) < SPIKE_THRESHOLD]

NumAccepted == accepted[1] + accepted[2] + accepted[3]

\* ------------------------------------------------------------------ run_async
\* A worker's on_message stamped a last_trade_price message with the clock reading
\* ts and put it on the queue; one iteration of run_async takes it off now and
\* handles it. The worker puts its events in the order it stamps them and the
\* queue is first in, first out, so the stamps the engine sees never decrease.
RunAsync(asset_id, kind, ts) ==
  /\ event.ts <= ts /\ ts <= now
  /\ event' = [asset_id |-> asset_id, side |-> kind.side,
               size |-> kind.size, price |-> kind.price, ts |-> ts]
  /\ LET parsed == parse_event(event')
     IN  IF parsed # <<>> /\ parsed[1].asset_id \in DOMAIN asset_map
         THEN handle_spike(parsed[1].asset_id, parsed[1])
         ELSE UNCHANGED engineVars
  /\ UNCHANGED <<now, asset_map, poolVars, queueVars, call, loopVars>>
  /\ History

Tick(t) ==
  /\ t > now
  /\ now' = t
  /\ UNCHANGED <<event, asset_map, engineVars, historyVars, poolVars, queueVars, call, loopVars>>

\* ------------------------------------------------------------------ worker
RECURSIVE Pow2(_)
Pow2(n) == IF n = 0 THEN 1 ELSE 2 * Pow2(n - 1)

Min(x, y) == IF x <= y THEN x ELSE y

\* WebSocketWorker.__init__; subscribed tells whether on_open has sent the
\* subscription of the chunk on the current connection, sent lists the
\* assets_ids of the subscriptions sent on it, put holds the event of
\* an on_message that waits in queue.put for a free slot. slept, owed and
\* reset_from are history: the sleeps since the last reset of
\* reconnect_attempts, whether a connection has ended with no sleep after it,
\* and the value of reconnect_attempts that the last on_open reset
NewWorker(chunk) ==
  [chunk |-> chunk, ws |-> FALSE, running |-> TRUE, reconnect_attempts |-> 0,
   pc |-> "created", subscribed |-> FALSE, sent |-> <<>>, put |-> <<>>,
   slept |-> <<>>, owed |-> FALSE, reset_from |-> 0]

\* run: the loop test and the try block up to the call of run_forever
Connect(w) ==
  /\ w \in 1..Len(workers)
  /\ workers[w].pc \in {"created", "returned", "backoff"}
  /\ workers[w].running
  /\ workers' = [workers EXCEPT ![w].ws = TRUE, ![w].pc = "connecting",
                                ![w].subscribed = FALSE, ![w].sent = <<>>]
  /\ UNCHANGED <<now, event, asset_map, engineVars, historyVars,
                 bot_pc, filtered_markets, current_asset_ids, rebalance,
                 queueVars, call, loopVars>>

\* variant: on_open that leaves reconnect_attempts as it is
OnOpen_NoReset(w) ==
  /\ w \in 1..Len(workers)
  /\ workers[w].pc = "connecting"
  /\ workers' = [workers EXCEPT ![w].pc = "streaming",
                                ![w].subscribed = TRUE,
                                ![w].sent = Append(@, workers[w].chunk),
                                ![w].reset_from = workers[w].reconnect_attempts,
                                ![w].slept = <<>>]
  /\ UNCHANGED <<now, event, asset_map, engineVars, historyVars,
                 bot_pc, filtered_markets, current_asset_ids, rebalance,
                 queueVars, call, loopVars>>

\* on_open, called by run_forever once the connection is established: the
\* subscription of the chunk is sent and reconnect_attempts is reset
OnOpen(w) ==
  /\ w \in 1..Len(workers)
  /\ workers[w].pc = "connecting"
  /\ workers' = [workers EXCEPT ![w].pc = "streaming",
                                ![w].subscribed = TRUE,
                                ![w].sent = Append(@, workers[w].chunk),
                                ![w].reconnect_attempts = 0,
                                ![w].reset_from = workers[w].reconnect_attempts,
                                ![w].slept = <<>>]
  /\ UNCHANGED <<now, event, asset_map, engineVars, historyVars,
                 bot_pc, filtered_markets, current_asset_ids, rebalance,
                 queueVars, call, loopVars>>

\* on_open whose ws.send raises: run_forever reports the exception to on_error
\* and goes on reading; the line after the send is not reached
OnOpenSendFails(w) ==
  /\ w \in 1..Len(workers)
  /\ workers[w].pc = "connecting"
  /\ workers' = [workers EXCEPT ![w].pc = "streaming"]
  /\ UNCHANGED <<now, event, asset_map, engineVars, historyVars,
                 bot_pc, filtered_markets, current_asset_ids, rebalance,
                 queueVars, call, loopVars>>

\* run_forever returns: the connection failed or was closed (on_error and
\* on_close only log); control goes back to the loop test
RunForeverReturns(w) ==
  /\ w \in 1..Len(workers)
  /\ workers[w].pc \in {"connecting", "streaming"}
  /\ workers[w].put = <<>>
  /\ workers' = [workers EXCEPT ![w].pc = "returned", ![w].owed = TRUE]
  /\ UNCHANGED <<now, event, asset_map, engineVars, historyVars,
                 bot_pc, filtered_markets, current_asset_ids, rebalance,
                 queueVars, call, loopVars>>

\* variant: the exception of the try block leaves run, and the thread ends
RunForeverRaises_EndsLoop(w) ==
  /\ w \in 1..Len(workers)
  /\ workers[w].pc \in {"connecting", "streaming"}
  /\ workers[w].put = <<>>
  /\ workers' = [workers EXCEPT ![w].pc = "ended"]
  /\ UNCHANGED <<now, event, asset_map, engineVars, historyVars,
                 bot_pc, filtered_markets, current_asset_ids, rebalance,
                 queueVars, call, loopVars>>

\* the try block raises: the except branch counts the attempt and sleeps
RunForeverRaises(w) ==
  /\ w \in 1..Len(workers)
  /\ workers[w].pc \in {"connecting", "streaming"}
  /\ workers[w].put = <<>>
  /\ LET attempts == workers[w].reconnect_attempts + 1
         sleep_time == 5 * Pow2(Min(attempts, 5))
     IN  workers' = [workers EXCEPT ![w].reconnect_attempts = attempts,
                                    ![w].slept = Append(@, sleep_time),
                                    ![w].owed = FALSE,
                                    ![w].pc = "backoff"]
  /\ UNCHANGED <<now, event, asset_map, engineVars, historyVars,
                 bot_pc, filtered_markets, current_asset_ids, rebalance,
                 queueVars, call, loopVars>>

\* variant: subscribe_additional_assets that sends before it extends the chunk,
\* so that a send that raises leaves the chunk as it was
subscribe_additional_assets_SendFirst(worker, new_asset_ids) ==
  IF ~worker.ws \/ new_asset_ids = <<>> \/ worker.pc # "streaming"
  THEN worker
  ELSE [worker EXCEPT !.chunk = @ \o new_asset_ids,
                      !.sent = Append(@, new_asset_ids)]

\* variant: subscribe_additional_assets that sends the whole chunk again
subscribe_additional_assets_WholeChunk(worker, new_asset_ids) ==
  IF ~worker.ws \/ new_asset_ids = <<>>
  THEN worker
  ELSE [worker EXCEPT !.chunk = @ \o new_asset_ids,
                      !.sent = IF worker.pc = "streaming"
                               THEN Append(@, worker.chunk \o new_asset_ids) ELSE @]

\* subscribe_additional_assets: the worker after the call. ws.send raises on a
\* connection that is not open; the exception is logged, the chunk stays
\* extended
subscribe_additional_assets(worker, new_asset_ids) ==
  IF ~worker.ws \/ new_asset_ids = <<>>
  THEN worker
  ELSE [worker EXCEPT !.chunk = @ \o new_asset_ids,
                      !.sent = IF worker.pc = "streaming"
                               THEN Append(@, new_asset_ids) ELSE @]

\* ------------------------------------------------------------------ on_message
\* An inbound message: its form ("text" is not JSON, "array" a JSON array,
\* "object" a JSON object), the keys the object has and their values. asset_id 0
\* is the empty string; size and price are a number, the float NaN, or a value
\* float() raises on.
Num(x) == [tag |-> "num", val |-> x]

float(v) ==
  IF v.tag = "text" THEN <<>>
  ELSE IF v.tag = "nan" THEN <<NaN>>
  ELSE <<v.val>>

\* on_message up to the put: <<>> when the message is skipped, else the event
on_message(worker_id, message, t) ==
  IF message.form # "object" THEN <<>>
  ELSE IF {"asset_id", "size", "price", "side"} \ message.keys # {} THEN <<>>
  ELSE LET size_f == float(message.size)
           price_f == float(message.price)
       IN  IF size_f = <<>> \/ price_f = <<>> THEN <<>>
           ELSE IF Le(size_f[1], 0) \/ Le(price_f[1], 0) THEN <<>>
           ELSE IF "event_type" \in message.keys /\ message.event_type = "last_trade_price"
                THEN << [asset_id |-> message.asset_id, side |-> message.side,
                         size |-> size_f[1], price |-> price_f[1],
                         worker |-> worker_id, ts |-> t] >>
                ELSE <<>>

\* run_forever calls on_message with a message; a full queue leaves the
\* worker thread inside queue.put. n numbers the events for the history.
OnMessage(w, message) ==
  /\ w \in 1..Len(workers)
  /\ workers[w].pc = "streaming"
  /\ workers[w].put = <<>>
  /\ inbound' = message
  /\ received' = received + 1
  /\ LET r == on_message(w - 1, message, now)
     IN  IF r = <<>>
         THEN UNCHANGED <<queue, workers, arrivals>>
         ELSE LET data == [asset_id |-> r[1].asset_id, side |-> r[1].side,
                           size |-> r[1].size, price |-> r[1].price,
                           worker |-> r[1].worker, ts |-> r[1].ts,
                           n |-> received + 1]
              IN  /\ arrivals' = Append(arrivals, data)
                  /\ IF Len(queue) < maxsize
                     THEN queue' = Append(queue, data) /\ UNCHANGED workers
                     ELSE workers' = [workers EXCEPT ![w].put = <<data>>]
                          /\ UNCHANGED queue
  /\ UNCHANGED <<now, event, asset_map, engineVars, historyVars,
                 bot_pc, filtered_markets, current_asset_ids, rebalance,
                 processor_task, handled_log, call, loopVars>>

\* variant: queue.put does not wait for a free slot
PutReturns_NoWait(w) ==
  /\ w \in 1..Len(workers)
  /\ workers[w].put # <<>>
  /\ queue' = Append(queue, workers[w].put[1])
  /\ workers' = [workers EXCEPT ![w].put = <<>>]
  /\ UNCHANGED <<now, event, asset_map, engineVars, historyVars,
                 bot_pc, filtered_markets, current_asset_ids, rebalance,
                 processor_task, inbound, received, arrivals, handled_log, call, loopVars>>

\* queue.put returns: a slot is free and the waiting event goes in
PutReturns(w) ==
  /\ w \in 1..Len(workers)
  /\ workers[w].put # <<>>
  /\ Len(queue) < maxsize
  /\ queue' = Append(queue, workers[w].put[1])
  /\ workers' = [workers EXCEPT ![w].put = <<>>]
  /\ UNCHANGED <<now, event, asset_map, engineVars, historyVars,
                 bot_pc, filtered_markets, current_asset_ids, rebalance,
                 processor_task, inbound, received, arrivals, handled_log, call, loopVars>>

\* variant: run_async takes an event off the queue and loses the one behind it
GetNowait_LosesNext ==
  /\ processor_task = "running"
  /\ queue # <<>>
  /\ queue' = IF Len(queue) >= 2 THEN Tail(Tail(queue)) ELSE <<>>
  /\ handled_log' = Append(handled_log, Head(queue))
  /\ event' = [asset_id |-> Head(queue).asset_id, side |-> Head(queue).side,
               size |-> Head(queue).size, price |-> Head(queue).price,
               ts |-> Head(queue).ts]
  /\ LET parsed == parse_event(event')
     IN  IF parsed # <<>> /\ parsed[1].asset_id \in DOMAIN asset_map
         THEN handle_spike(parsed[1].asset_id, parsed[1])
         ELSE UNCHANGED engineVars
  /\ UNCHANGED <<now, asset_map, poolVars, processor_task, inbound, received,
                 arrivals, call, loopVars>>
  /\ History

\* variant: run_async takes the newest event of the queue
GetNowait_Lifo ==
  /\ processor_task = "running"
  /\ queue # <<>>
  /\ queue' = SubSeq(queue, 1, Len(queue) - 1)
  /\ handled_log' = Append(handled_log, queue[Len(queue)])
  /\ event' = [asset_id |-> queue[Len(queue)].asset_id, side |-> queue[Len(queue)].side,
               size |-> queue[Len(queue)].size, price |-> queue[Len(queue)].price,
               ts |-> queue[Len(queue)].ts]
  /\ LET parsed == parse_event(event')
     IN  IF parsed # <<>> /\ parsed[1].asset_id \in DOMAIN asset_map
         THEN handle_spike(parsed[1].asset_id, parsed[1])
         ELSE UNCHANGED engineVars
  /\ UNCHANGED <<now, asset_map, poolVars, processor_task, inbound, received,
                 arrivals, call, loopVars>>
  /\ History

\* variant: run_async gives a trade of an unmapped instrument a counter
GetNowait_CountsUnknown ==
  /\ processor_task = "running"
  /\ queue # <<>>
  /\ queue' = Tail(queue)
  /\ handled_log' = Append(handled_log, Head(queue))
  /\ event' = [asset_id |-> Head(queue).asset_id, side |-> Head(queue).side,
               size |-> Head(queue).size, price |-> Head(queue).price,
               ts |-> Head(queue).ts]
  /\ LET parsed == parse_event(event')
     IN  IF parsed = <<>> THEN UNCHANGED engineVars
         ELSE IF parsed[1].asset_id \in DOMAIN asset_map
         THEN handle_spike(parsed[1].asset_id, parsed[1])
         ELSE /\ asset_counters' =
                   [a \in DOMAIN asset_counters \cup {parsed[1].asset_id} |->
                      IF a = parsed[1].asset_id
                      THEN NewCounter(now) ELSE asset_counters[a]]
              /\ UNCHANGED <<spikes, broadcasts>>
  /\ UNCHANGED <<now, asset_map, poolVars, processor_task, inbound, received,
                 arrivals, call, loopVars>>
  /\ History

\* one iteration of run_async that finds an event on the queue
GetNowait ==
  /\ processor_task = "running"
  /\ queue # <<>>
  /\ queue' = Tail(queue)
  /\ handled_log' = Append(handled_log, Head(queue))
  /\ event' = [asset_id |-> Head(queue).asset_id, side |-> Head(queue).side,
               size |-> Head(queue).size, price |-> Head(queue).price,
               ts |-> Head(queue).ts]
  /\ LET parsed == parse_event(event')
     IN  IF parsed # <<>> /\ parsed[1].asset_id \in DOMAIN asset_map
         THEN handle_spike(parsed[1].asset_id, parsed[1])
         ELSE UNCHANGED engineVars
  /\ UNCHANGED <<now, asset_map, poolVars, processor_task, inbound, received,
                 arrivals, call, loopVars>>
  /\ History

\* BotManager.stop_bots: the bot's running flag is cleared and the task of
\* SpikeBot.run is cancelled
StopBots ==
  /\ bot_pc = "running"
  /\ bot_pc' = "stopped"
  /\ UNCHANGED <<now, event, asset_map, engineVars, historyVars,
                 filtered_markets, current_asset_ids, workers, rebalance,
                 queueVars, call, loopVars>>

\* the task of run_async is cancelled: by SpikeBot.run when it leaves its status
\* loop, or with the event loop
ProcessorCancelled ==
  /\ bot_pc = "stopped"
  /\ processor_task = "running"
  /\ processor_task' = "cancelled"
  /\ UNCHANGED <<now, event, asset_map, engineVars, historyVars, poolVars,
                 queue, inbound, received, arrivals, handled_log, call, loopVars>>

\* ------------------------------------------------------------------ pool
\* variant: split_chunks without the last, shorter chunk
split_chunks_DropRemainder(asset_ids, chunk_size) ==
  [k \in 1..(Len(asset_ids) \div chunk_size) |->
     SubSeq(asset_ids, (k - 1) * chunk_size + 1, k * chunk_size)]

RECURSIVE split_chunks(_, _)
split_chunks(asset_ids, chunk_size) ==
  IF asset_ids = <<>> THEN <<>>
  ELSE <<SubSeq(asset_ids, 1, Min(chunk_size, Len(asset_ids)))>>
       \o split_chunks(SubSeq(asset_ids, chunk_size + 1, Len(asset_ids)), chunk_size)

Range(seq) == { seq[i] : i \in 1..Len(seq) }

RECURSIVE Ascending(_)
Ascending(S) ==
  IF S = {} THEN <<>>
  ELSE LET x == CHOOSE y \in S : \A z \in S : y <= z
       IN  <<x>> \o Ascending(S \ {x})

Reverse(seq) == [i \in 1..Len(seq) |-> seq[Len(seq) + 1 - i]]

\* list(set(...)): the order of a set's elements is not fixed; the ascending and
\* the descending order stand for it
Orders(S) == {Ascending(S), Reverse(Ascending(S))}

\* the instrument ids of a list of markets
IdsOf(markets) ==
  UNION { Range(MarketAssetIds(markets[k])) : k \in 1..Len(markets) }

\* variant: the workers with spare capacity, least spare first
available_workers_Ascending(ws) ==
  LET capacity(i) == CHUNK_SIZE - Len(ws[i].chunk)
      avail == { i \in 1..Len(ws) : Len(ws[i].chunk) < CHUNK_SIZE }
      before(j, i) == capacity(j) < capacity(i) \/ (capacity(j) = capacity(i) /\ j < i)
      rank(i) == 1 + Cardinality({ j \in avail : before(j, i) })
  IN  [p \in 1..Cardinality(avail) |->
         LET i == CHOOSE j \in avail : rank(j) = p
         IN  [worker |-> i, capacity |-> capacity(i)]]

\* the workers with spare capacity, most spare first; list.sort is stable
available_workers(ws) ==
  LET capacity(i) == CHUNK_SIZE - Len(ws[i].chunk)
      avail == { i \in 1..Len(ws) : Len(ws[i].chunk) < CHUNK_SIZE }
      before(j, i) == capacity(j) > capacity(i) \/ (capacity(j) = capacity(i) /\ j < i)
      rank(i) == 1 + Cardinality({ j \in avail : before(j, i) })
  IN  [p \in 1..Cardinality(avail) |->
         LET i == CHOOSE j \in avail : rank(j) = p
         IN  [worker |-> i, capacity |-> capacity(i)]]

\* variant: every id goes to the first worker with spare capacity
Distribute_AllToFirst(new_asset_ids, current_worker_idx, avail, dist) ==
  IF avail = <<>>
  THEN [dist EXCEPT !.unassigned_assets = new_asset_ids]
  ELSE [dist EXCEPT !.worker_assets[avail[1].worker] = new_asset_ids]

\* the distribution loop: dist.worker_assets and dist.unassigned_assets after the
\* ids of the list have been dealt out, starting at current_worker_idx
RECURSIVE Distribute(_, _, _, _)
Distribute(new_asset_ids, current_worker_idx, avail, dist) ==
  IF new_asset_ids = <<>> THEN dist
  ELSE LET asset_id == Head(new_asset_ids)
       IN  IF current_worker_idx > Len(avail)
           THEN Distribute(Tail(new_asset_ids), current_worker_idx, avail,
                           [dist EXCEPT !.unassigned_assets = Append(@, asset_id)])
           ELSE LET worker == avail[current_worker_idx].worker
                    capacity == avail[current_worker_idx].capacity
                    assets == Append(dist.worker_assets[worker], asset_id)
                IN  Distribute(Tail(new_asset_ids),
                               IF Len(assets) >= capacity
                               THEN current_worker_idx + 1 ELSE current_worker_idx,
                               avail,
                               [dist EXCEPT !.worker_assets[worker] = assets])

\* subscribe_new_assets: the workers after the call, with what the call handed
\* to each existing worker and the chunks it started workers for
subscribe_new_assets(ws, new_asset_ids) ==
  IF ws = <<>>
  THEN [workers |-> ws, given |-> <<>>, chunks |-> <<>>]
  ELSE LET avail == available_workers(ws)
           dist == Distribute(new_asset_ids, 1, avail,
                              [worker_assets |-> [i \in 1..Len(ws) |-> <<>>],
                               unassigned_assets |-> <<>>])
           subscribed == [i \in 1..Len(ws) |->
                            subscribe_additional_assets(ws[i], dist.worker_assets[i])]
           new_chunks == split_chunks(dist.unassigned_assets, CHUNK_SIZE)
       IN  [workers |-> subscribed \o [k \in 1..Len(new_chunks) |-> NewWorker(new_chunks[k])],
            given |-> dist.worker_assets,
            chunks |-> new_chunks]

\* the last call of subscribe_new_assets: its argument, the spare capacity it
\* found, what it handed out; earlier holds the ids of the calls before it
NoRebalance ==
  [called |-> FALSE, new_ids |-> <<>>, spare |-> <<>>, given |-> <<>>, chunks |-> <<>>,
   earlier |-> {}]

\* the spare capacity of every worker, in worker order
Spare(ws) == [i \in 1..Len(ws) |-> CHUNK_SIZE - Len(ws[i].chunk)]

\* SpikeBot.run up to the status loop, for the filtered markets of the first
\* fetch and one order of their instrument ids
Run(filtered, asset_ids) ==
  /\ bot_pc = "init"
  /\ asset_ids \in Orders(IdsOf(filtered))
  /\ bot_pc' = "running"
  /\ filtered_markets' = filtered
  /\ last_refetch_time' = now
  /\ current_asset_ids' = Range(asset_ids)
  /\ asset_map' = build_asset_to_market_map(filtered)
  /\ workers' = LET chunks == split_chunks(asset_ids, CHUNK_SIZE)
                IN  [k \in 1..Len(chunks) |-> NewWorker(chunks[k])]
  /\ UNCHANGED <<now, event, engineVars, historyVars, rebalance, queueVars, call,
                 refetched, loop>>

\* variant: the new ids are subscribed but the engine's map is not extended
refetch_and_update_NoMapUpdate(new_filtered, new_asset_ids, current_time) ==
  LET existing_market_ids == Range(filtered_markets)
      new_markets == SelectSeq(new_filtered, LAMBDA m : m \notin existing_market_ids)
  IN  /\ new_asset_ids \in Orders(IdsOf(new_markets) \ current_asset_ids)
      /\ IF new_markets = <<>> \/ new_asset_ids = <<>>
         THEN UNCHANGED <<filtered_markets, current_asset_ids, asset_map, workers,
                          rebalance, last_refetch_time>>
         ELSE LET r == subscribe_new_assets(workers, new_asset_ids)
                  new_asset_map == build_asset_to_market_map(new_markets)
              IN  /\ filtered_markets' = filtered_markets \o new_markets
                  /\ current_asset_ids' = current_asset_ids \cup Range(new_asset_ids)
                  /\ asset_map' = asset_map
                  /\ workers' = r.workers
                  /\ rebalance' = [called |-> TRUE, new_ids |-> new_asset_ids,
                                   spare |-> Spare(workers),
                                   given |-> r.given, chunks |-> r.chunks,
                                   earlier |-> rebalance.earlier
                                                 \cup Range(rebalance.new_ids)]
                  /\ last_refetch_time' = current_time

\* variant: the ids of the new markets are not diffed against current_asset_ids
refetch_and_update_NoDiff(new_filtered, new_asset_ids, current_time) ==
  LET existing_market_ids == Range(filtered_markets)
      new_markets == SelectSeq(new_filtered, LAMBDA m : m \notin existing_market_ids)
      undiffed == IF new_asset_ids = Ascending(Range(new_asset_ids))
                  THEN Ascending(IdsOf(new_markets))
                  ELSE Reverse(Ascending(IdsOf(new_markets)))
  IN  /\ new_asset_ids \in Orders(IdsOf(new_markets) \ current_asset_ids)
      /\ IF new_markets = <<>>
         THEN UNCHANGED <<filtered_markets, current_asset_ids, asset_map, workers,
                          rebalance, last_refetch_time>>
         ELSE LET r == subscribe_new_assets(workers, undiffed)
                  new_asset_map == build_asset_to_market_map(new_markets)
              IN  /\ filtered_markets' = filtered_markets \o new_markets
                  /\ current_asset_ids' = current_asset_ids \cup Range(undiffed)
                  /\ asset_map' =
                       [a \in DOMAIN asset_map \cup DOMAIN new_asset_map |->
                          IF a \in DOMAIN new_asset_map
                          THEN new_asset_map[a] ELSE asset_map[a]]
                  /\ workers' = r.workers
                  /\ rebalance' = [called |-> TRUE, new_ids |-> undiffed,
                                   spare |-> Spare(workers),
                                   given |-> r.given, chunks |-> r.chunks,
                                   earlier |-> rebalance.earlier
                                                 \cup Range(rebalance.new_ids)]
                  /\ last_refetch_time' = current_time

\* variant: the ids handed to subscribe_new_assets are not recorded in
\* current_asset_ids
refetch_and_update_NoRecord(new_filtered, new_asset_ids, current_time) ==
  LET existing_market_ids == Range(filtered_markets)
      new_markets == SelectSeq(new_filtered, LAMBDA m : m \notin existing_market_ids)
  IN  /\ new_asset_ids \in Orders(IdsOf(new_markets) \ current_asset_ids)
      /\ IF new_markets = <<>> \/ new_asset_ids = <<>>
         THEN UNCHANGED <<filtered_markets, current_asset_ids, asset_map, workers,
                          rebalance, last_refetch_time>>
         ELSE LET r == subscribe_new_assets(workers, new_asset_ids)
                  new_asset_map == build_asset_to_market_map(new_markets)
              IN  /\ filtered_markets' = filtered_markets \o new_markets
                  /\ UNCHANGED current_asset_ids
                  /\ asset_map' =
                       [a \in DOMAIN asset_map \cup DOMAIN new_asset_map |->
                          IF a \in DOMAIN new_asset_map
                          THEN new_asset_map[a] ELSE asset_map[a]]
                  /\ workers' = r.workers
                  /\ rebalance' = [called |-> TRUE, new_ids |-> new_asset_ids,
                                   spare |-> Spare(workers),
                                   given |-> r.given, chunks |-> r.chunks,
                                   earlier |-> rebalance.earlier
                                                 \cup Range(rebalance.new_ids)]
                  /\ last_refetch_time' = current_time

\* refetch_and_update called at current_time when the fetch succeeds:
\* new_filtered are the fetched markets that pass the filter, new_asset_ids one
\* order of the new ids
refetch_and_update(new_filtered, new_asset_ids, current_time) ==
  LET existing_market_ids == Range(filtered_markets)
      new_markets == SelectSeq(new_filtered, LAMBDA m : m \notin existing_market_ids)
  IN  /\ new_asset_ids \in Orders(IdsOf(new_markets) \ current_asset_ids)
      /\ IF new_markets = <<>> \/ new_asset_ids = <<>>
         THEN UNCHANGED <<filtered_markets, current_asset_ids, asset_map, workers,
                          rebalance, last_refetch_time>>
         ELSE LET r == subscribe_new_assets(workers, new_asset_ids)
                  new_asset_map == build_asset_to_market_map(new_markets)
              IN  /\ filtered_markets' = filtered_markets \o new_markets
                  /\ current_asset_ids' = current_asset_ids \cup Range(new_asset_ids)
                  /\ asset_map' =
                       [a \in DOMAIN asset_map \cup DOMAIN new_asset_map |->
                          IF a \in DOMAIN new_asset_map
                          THEN new_asset_map[a] ELSE asset_map[a]]
                  /\ workers' = r.workers
                  /\ rebalance' = [called |-> TRUE, new_ids |-> new_asset_ids,
                                   spare |-> Spare(workers),
                                   given |-> r.given, chunks |-> r.chunks,
                                   earlier |-> rebalance.earlier
                                                 \cup Range(rebalance.new_ids)]
                  /\ last_refetch_time' = current_time

\* a call of refetch_and_update whose fetch succeeds
RefetchAndUpdate(new_filtered, new_asset_ids) ==
  /\ bot_pc = "running"
  /\ refetch_and_update(new_filtered, new_asset_ids, now)
  /\ UNCHANGED <<now, event, engineVars, historyVars, bot_pc, queueVars, call,
                 refetched, loop>>

\* variant: a failed refresh that forgets the instruments it knew
RefetchFails_Forgets ==
  /\ bot_pc = "running"
  /\ call' = [fn |-> "refetch_and_update", raised |-> TRUE]
  /\ current_asset_ids' = {}
  /\ UNCHANGED <<now, event, asset_map, engineVars, historyVars,
                 bot_pc, filtered_markets, workers, rebalance, queueVars, loopVars>>

\* refetch_and_update when fetch_all_markets or filter_markets raises: the
\* except branch logs the error
RefetchFails ==
  /\ bot_pc = "running"
  /\ call' = [fn |-> "refetch_and_update", raised |-> TRUE]
  /\ UNCHANGED <<now, event, asset_map, engineVars, historyVars, poolVars, queueVars, loopVars>>

\* ------------------------------------------------------------------ catalog fetch
\* fetch_all_markets is called on a catalog of `pages` pages that hold markets:
\* the offset iterator is at the first page, the stop event is clear, and the
\* page workers are created, each at its loop test
FetchAllMarkets(pages) ==
  /\ call.fn = "none"
  /\ call' = [fn |-> "fetch_all_markets", pages |-> pages, offset_iterator |-> 0,
              stop_event |-> FALSE, markets |-> {}, returned |-> FALSE,
              tasks |-> [t \in 1..concurrency |->
                           [pc |-> "test", offset |-> 0, attempt |-> 0]]]
  /\ UNCHANGED <<now, event, asset_map, engineVars, historyVars, poolVars, queueVars,
                 loopVars>>

\* fetch_page_worker at `while not stop_event.is_set()`: it ends when the event
\* is set, else takes the next offset and calls fetch_with_retry
NextOffset(t) ==
  /\ call.fn = "fetch_all_markets"
  /\ call.tasks[t].pc = "test"
  /\ call' = IF call.stop_event
             THEN [call EXCEPT !.tasks[t].pc = "done"]
             ELSE [call EXCEPT !.tasks[t] = [pc |-> "fetching",
                                             offset |-> call.offset_iterator,
                                             attempt |-> 0],
                               !.offset_iterator = Min(@ + 1, MaxPages)]
  /\ UNCHANGED <<now, event, asset_map, engineVars, historyVars, poolVars, queueVars,
                 loopVars>>

\* an attempt of fetch_with_retry raises (no answer within the timeout, or an
\* error status): it sleeps and tries again, and after the last attempt
\* returns None, on which fetch_page_worker goes back to its loop test
AttemptRaises(t) ==
  /\ call.fn = "fetch_all_markets"
  /\ call.tasks[t].pc = "fetching"
  /\ call' = IF call.tasks[t].attempt < max_retries - 1
             THEN [call EXCEPT !.tasks[t].attempt = @ + 1]
             ELSE [call EXCEPT !.tasks[t].pc = "test"]
  /\ UNCHANGED <<now, event, asset_map, engineVars, historyVars, poolVars, queueVars,
                 loopVars>>

\* an attempt of fetch_with_retry returns the page: an empty page sets the
\* stop event, the markets of any other are appended to the list
AttemptReturns(t) ==
  /\ call.fn = "fetch_all_markets"
  /\ call.tasks[t].pc = "fetching"
  /\ call' = IF call.tasks[t].offset >= call.pages
             THEN [call EXCEPT !.tasks[t].pc = "test", !.stop_event = TRUE]
             ELSE [call EXCEPT !.tasks[t].pc = "test",
                               !.markets = @ \cup {call.tasks[t].offset}]
  /\ UNCHANGED <<now, event, asset_map, engineVars, historyVars, poolVars, queueVars,
                 loopVars>>

\* asyncio.gather returns once every page worker has ended; the sessions are
\* closed and fetch_all_markets returns the list
Gather ==
  /\ call.fn = "fetch_all_markets"
  /\ ~call.returned
  /\ \A t \in 1..concurrency : call.tasks[t].pc = "done"
  /\ call' = [call EXCEPT !.returned = TRUE]
  /\ UNCHANGED <<now, event, asset_map, engineVars, historyVars, poolVars, queueVars,
                 loopVars>>

\* ------------------------------------------------------------------ event loop
\* the task the event loop is running, if any
Current == { t \in DOMAIN loop.tasks : loop.tasks[t] = "running" }

\* a worker thread's on_message puts the event of a message on a queue that has
\* room; worker threads do not run on the event loop
Produce(w, message) ==
  /\ w \in 1..Len(workers)
  /\ workers[w].pc = "streaming"
  /\ workers[w].put = <<>>
  /\ Len(queue) < maxsize
  /\ LET r == on_message(w - 1, message, now)
     IN  /\ r # <<>>
         /\ queue' = Append(queue, [asset_id |-> r[1].asset_id, side |-> r[1].side,
                                    size |-> r[1].size, price |-> r[1].price,
                                    worker |-> r[1].worker, ts |-> r[1].ts, n |-> 0])
  /\ inbound' = message
  /\ UNCHANGED <<now, event, asset_map, engineVars, historyVars, poolVars,
                 processor_task, received, arrivals, handled_log, call, loopVars>>

\* the event loop resumes a task that is ready when no task is running
Resume(t) ==
  /\ Current = {}
  /\ loop.tasks[t] = "ready"
  /\ loop' = [loop EXCEPT !.tasks[t] = "running"]
  /\ UNCHANGED <<now, event, asset_map, engineVars, historyVars, poolVars, queueVars,
                 call, last_refetch_time, refetched>>

\* the sleep a task awaits is over
SleepOver(t) ==
  /\ loop.tasks[t] = "sleeping"
  /\ loop' = [loop EXCEPT !.tasks[t] = "ready"]
  /\ UNCHANGED <<now, event, asset_map, engineVars, historyVars, poolVars, queueVars,
                 call, last_refetch_time, refetched>>

\* run_async finds the queue empty and awaits asyncio.sleep(0.1)
RunAsyncSleeps ==
  /\ loop.tasks.processor_task = "running"
  /\ loop.add_spike = <<>>
  /\ queue = <<>>
  /\ loop' = [loop EXCEPT !.tasks.processor_task = "sleeping"]
  /\ UNCHANGED <<now, event, asset_map, engineVars, historyVars, poolVars, queueVars,
                 call, last_refetch_time, refetched>>

\* run_async takes an event off the queue and handles it, without an await;
\* when trigger_alert has a record for the sinks it calls add_spike with it,
\* and when it raises, run_async logs the exception and awaits its sleep
RunAsyncTakes ==
  /\ loop.tasks.processor_task = "running"
  /\ loop.add_spike = <<>>
  /\ queue # <<>>
  /\ queue' = Tail(queue)
  /\ event' = [asset_id |-> Head(queue).asset_id, side |-> Head(queue).side,
               size |-> Head(queue).size, price |-> Head(queue).price,
               ts |-> Head(queue).ts]
  /\ LET parsed == parse_event(event')
     IN  IF parsed # <<>> /\ parsed[1].asset_id \in DOMAIN asset_map
                          /\ ~Rejected(parsed[1])
         THEN LET asset_id == parsed[1].asset_id
                  counter0 == IF asset_id \in DOMAIN asset_counters
                              THEN asset_counters[asset_id] ELSE NewCounter(now)
                  r == HandleAccepted(counter0, asset_id, asset_map[asset_id],
                                      parsed[1], now)
              IN  /\ asset_counters' =
                       [a \in DOMAIN asset_counters \cup {asset_id} |->
                          IF a = asset_id THEN r.counter ELSE asset_counters[a]]
                  /\ loop' = IF r.raised
                             THEN [loop EXCEPT !.tasks.processor_task = "sleeping"]
                             ELSE [loop EXCEPT !.add_spike = r.alerts]
         ELSE UNCHANGED <<asset_counters, loop>>
  /\ UNCHANGED <<now, asset_map, spikes, broadcasts, poolVars, processor_task, inbound,
                 received, arrivals, handled_log, call, last_refetch_time, refetched>>
  /\ History

\* add_spike returns: the record is inserted and committed; trigger_alert then
\* creates the task of ws_manager.broadcast and returns to run_async
AddSpikeReturns ==
  /\ loop.tasks.processor_task = "running"
  /\ loop.add_spike # <<>>
  /\ spikes' = Append(spikes, loop.add_spike[1])
  /\ loop' = [loop EXCEPT !.add_spike = <<>>,
                          !.created = Append(@, loop.add_spike[1])]
  /\ UNCHANGED <<now, event, asset_map, asset_counters, broadcasts, historyVars,
                 poolVars, queueVars, call, last_refetch_time, refetched>>

\* variant: the exception of the INSERT leaves add_spike and ends run_async
AddSpikeFails_EndsTask ==
  /\ loop.tasks.processor_task = "running"
  /\ loop.add_spike # <<>>
  /\ loop' = [loop EXCEPT !.add_spike = <<>>, !.tasks.processor_task = "done"]
  /\ UNCHANGED <<now, event, asset_map, engineVars, historyVars,
                 poolVars, queueVars, call, last_refetch_time, refetched>>

\* add_spike's INSERT or its commit raises: add_spike logs the exception and
\* returns with nothing stored; trigger_alert then creates the task of
\* ws_manager.broadcast and returns to run_async
AddSpikeFails ==
  /\ loop.tasks.processor_task = "running"
  /\ loop.add_spike # <<>>
  /\ loop' = [loop EXCEPT !.add_spike = <<>>,
                          !.created = Append(@, loop.add_spike[1])]
  /\ UNCHANGED <<now, event, asset_map, engineVars, historyVars,
                 poolVars, queueVars, call, last_refetch_time, refetched>>

\* a task of ws_manager.broadcast ends with an exception, which stays in the
\* task: no subscriber gets the record
BroadcastFails ==
  /\ Current = {}
  /\ loop.created # <<>>
  /\ loop' = [loop EXCEPT !.created = Tail(@)]
  /\ UNCHANGED <<now, event, asset_map, engineVars, historyVars,
                 poolVars, queueVars, call, last_refetch_time, refetched>>

\* the event loop runs a task of ws_manager.broadcast when no task is running
Broadcast ==
  /\ Current = {}
  /\ loop.created # <<>>
  /\ broadcasts' = Append(broadcasts, Head(loop.created))
  /\ loop' = [loop EXCEPT !.created = Tail(@)]
  /\ UNCHANGED <<now, event, asset_map, asset_counters, spikes, historyVars,
                 poolVars, queueVars, call, last_refetch_time, refetched>>

\* the status loop runs one round in which no refresh is due and awaits its
\* sleep again
StatusRound ==
  /\ loop.tasks.spike_task = "running"
  /\ bot_pc = "running"
  /\ now - last_refetch_time < REFETCH_INTERVAL
  /\ loop' = [loop EXCEPT !.tasks.spike_task = "sleeping"]
  /\ UNCHANGED <<now, event, asset_map, engineVars, historyVars, poolVars, queueVars,
                 call, last_refetch_time, refetched>>

\* the last two clock readings of refetched, with the reading t added
Refetched(t) ==
  IF refetched = <<>> THEN <<t>> ELSE <<refetched[Len(refetched)], t>>

\* one round of the status loop when the fetch, if one is made, succeeds: the
\* sleep returns, and if REFETCH_INTERVAL has elapsed since last_refetch_time,
\* refetch_and_update runs
StatusLoop(new_filtered, new_asset_ids) ==
  /\ bot_pc = "running"
  /\ now' = now + STATUS_SLEEP
  /\ IF now' - last_refetch_time >= REFETCH_INTERVAL
     THEN /\ refetch_and_update(new_filtered, new_asset_ids, now')
          /\ refetched' = Refetched(now')
     ELSE UNCHANGED <<filtered_markets, current_asset_ids, asset_map, workers,
                      rebalance, last_refetch_time, refetched>>
  /\ UNCHANGED <<event, engineVars, historyVars, bot_pc, queueVars, call, loop>>

\* one round of the status loop in which refetch_and_update runs and the fetch
\* or the filter raises
StatusLoopRefetchFails ==
  /\ bot_pc = "running"
  /\ now' = now + STATUS_SLEEP
  /\ now' - last_refetch_time >= REFETCH_INTERVAL
  /\ refetched' = Refetched(now')
  /\ call' = [fn |-> "refetch_and_update", raised |-> TRUE]
  /\ UNCHANGED <<event, asset_map, engineVars, historyVars, poolVars, queueVars,
                 last_refetch_time, loop>>

\* ------------------------------------------------------------------ specification
NoEvent == [asset_id |-> 0, side |-> "", size |-> 0, price |-> 0, ts |-> 0]

\* no message yet, no call yet
NoMessage == [form |-> "none"]
NoCall == [fn |-> "none"]

\* the event loop once SpikeBot.run has reached the sleep of its status loop:
\* the task of run_async is ready to run, no alert is on its way
NoLoop ==
  [tasks |-> [processor_task |-> "ready", spike_task |-> "sleeping"],
   add_spike |-> <<>>, created |-> <<>>]

\* EventProcessor.__init__ and the history of a run that has not begun
EngineInit ==
  /\ now = 0
  /\ event = NoEvent
  /\ asset_counters = << >>
  /\ spikes = <<>>
  /\ broadcasts = <<>>
  /\ accepted = [a \in AssetIds |-> 0]
  /\ alerted = [a \in AssetIds |-> {}]
  /\ rearmed = [a \in AssetIds |-> FALSE]
  /\ queue = <<>>
  /\ processor_task = "running"
  /\ inbound = NoMessage
  /\ received = 0
  /\ arrivals = <<>>
  /\ handled_log = <<>>
  /\ call = NoCall
  /\ last_refetch_time = 0
  /\ refetched = <<>>
  /\ loop = NoLoop

\* SpikeBot in its status loop after run() has started it on the given markets
Started(filtered) ==
  /\ bot_pc = "running"
  /\ filtered_markets = filtered
  /\ current_asset_ids = IdsOf(filtered)
  /\ asset_map = build_asset_to_market_map(filtered)
  /\ workers = LET chunks == split_chunks(Ascending(IdsOf(filtered)), CHUNK_SIZE)
               IN  [k \in 1..Len(chunks) |-> NewWorker(chunks[k])]
  /\ rebalance = NoRebalance

\* the engine of a bot started on market 1
Init == EngineInit /\ Started(<<1>>)

\* the messages of the one-instrument runs: every kind of trade on instrument 1,
\* and a trade on an instrument of no market
Messages ==
  { <<1, k>> : k \in TradeKinds } \cup { <<3, [side |-> "BUY", size |-> 3000, price |-> 98]>> }

Next ==
  \/ \E m \in Messages, ts \in ClockValues :
        NumAccepted < MaxEvents /\ RunAsync(m[1], m[2], ts)
  \/ \E t \in ClockValues : Tick(t)

Spec == Init /\ [][Next]_vars

\* the messages of the two-instrument runs: every kind of trade on both
\* instruments of market 1
PairNext ==
  \/ \E a \in {1, 2}, k \in TradeKinds, ts \in ClockValues :
        NumAccepted < MaxPairEvents /\ RunAsync(a, k, ts)
  \/ \E t \in ClockValues : Tick(t)

PairSpec == Init /\ [][PairNext]_vars

\* the clock readings of a window that slides twice: two readings a second
\* apart, and the readings at which the trades of the first and then those of
\* the second have just left the window
DropClock == {0, 1, TIME_WINDOW + 1, TIME_WINDOW + 2}

\* large buys of instrument 1 at an acceptable price, while the clock advances
DropNext ==
  \/ \E ts \in DropClock :
        NumAccepted < MaxDropEvents
          /\ RunAsync(1, [side |-> "BUY", size |-> 3000, price |-> 98], ts)
  \/ \E t \in DropClock : Tick(t)

DropSpec == Init /\ [][DropNext]_vars

\* SpikeBot in its status loop with every worker's connection open
Streaming(filtered) ==
  /\ bot_pc = "running"
  /\ filtered_markets = filtered
  /\ current_asset_ids = IdsOf(filtered)
  /\ asset_map = build_asset_to_market_map(filtered)
  /\ workers = LET chunks == split_chunks(Ascending(IdsOf(filtered)), CHUNK_SIZE)
               IN  [k \in 1..Len(chunks) |->
                      [NewWorker(chunks[k]) EXCEPT !.ws = TRUE, !.pc = "streaming",
                                                   !.subscribed = TRUE]]
  /\ rebalance = NoRebalance

\* a last_trade_price message with every field
TradeMessage(asset_id, side, size, price) ==
  [form |-> "object", keys |-> {"asset_id", "side", "size", "price", "event_type"},
   asset_id |-> asset_id, side |-> side, size |-> size, price |-> price,
   event_type |-> "last_trade_price"]

\* the queue between the workers of a bot on markets 1 and 2 and the engine
QueueInit == EngineInit /\ Streaming(<<1, 2>>)

\* a worker receives trades of the first instrument of its chunk; the first
\* worker also a trade of an instrument of no market
QueueMessages(w) ==
  { TradeMessage(Head(workers[w].chunk), "BUY", Num(3000), Num(98)) }
    \cup (IF w = 1 THEN { TradeMessage(9, "BUY", Num(3000), Num(98)) } ELSE {})

QueueNext ==
  \/ \E w \in 1..Len(workers) :
       \E m \in QueueMessages(w) : received < MaxMessages /\ OnMessage(w, m)
  \/ \E w \in 1..Len(workers) : PutReturns(w)
  \/ GetNowait
  \/ StopBots
  \/ ProcessorCancelled

QueueSpec == QueueInit /\ [][QueueNext]_vars

\* run_async keeps calling get_nowait while its task runs
FairQueueSpec == QueueSpec /\ WF_vars(GetNowait)

\* the message filter of the one worker of a bot on market 1
InboundInit == EngineInit /\ Streaming(<<1>>)

\* the messages a server may send: a large trade of instrument 1, and the same
\* message with one thing changed
InboundMessages ==
  LET trade == TradeMessage(1, "BUY", Num(3000), Num(98))
  IN  { trade,
        [trade EXCEPT !.form = "text"],
        [trade EXCEPT !.form = "array"],
        [trade EXCEPT !.asset_id = 0],
        [trade EXCEPT !.side = ""],
        [trade EXCEPT !.size = Num(0)],
        [trade EXCEPT !.size = Num(-3000)],
        [trade EXCEPT !.size = [tag |-> "text", val |-> 0]],
        [trade EXCEPT !.size = [tag |-> "nan", val |-> 0]],
        [trade EXCEPT !.price = Num(0)],
        [trade EXCEPT !.price = Num(-98)],
        [trade EXCEPT !.price = [tag |-> "text", val |-> 0]],
        [trade EXCEPT !.price = [tag |-> "nan", val |-> 0]],
        [trade EXCEPT !.event_type = "book"] }
    \cup { [trade EXCEPT !.keys = @ \ {k}] : k \in trade.keys }

InboundNext ==
  \/ \E m \in InboundMessages : received < MaxInbound /\ OnMessage(1, m)
  \/ \E w \in 1..Len(workers) : PutReturns(w)
  \/ GetNowait

InboundSpec == InboundInit /\ [][InboundNext]_vars

\* a call of split_chunks
SplitChunks(asset_ids, chunk_size) ==
  /\ call' = [fn |-> "split_chunks", asset_ids |-> asset_ids, chunk_size |-> chunk_size,
              result |-> split_chunks(asset_ids, chunk_size)]
  /\ UNCHANGED <<now, event, asset_map, engineVars, historyVars, poolVars, queueVars, loopVars>>

\* the id lists of up to MaxLen ids, repeated ids included
IdLists == UNION { [1..n -> {1, 2}] : n \in 0..MaxLen }

\* SpikeBot.__init__: no worker, no market, no processor yet
PoolInit ==
  /\ EngineInit
  /\ bot_pc = "init"
  /\ filtered_markets = <<>>
  /\ current_asset_ids = {}
  /\ asset_map = << >>
  /\ workers = <<>>
  /\ rebalance = NoRebalance

\* the fetched markets that pass the filter, in catalog order: a run of
\* consecutive markets of the catalog, market 0 included, or none
Fetches == { [k \in 1..(hi - lo) |-> lo + k] : lo \in (-1)..MaxMarkets, hi \in 0..MaxMarkets }

\* the fetches of a catalog that only grows: its first markets
GrowingFetches == { [k \in 1..hi |-> k] : hi \in 0..MaxMarkets }

\* the fetches of a catalog that only grows, with or without market 0
SharingFetches == GrowingFetches \cup { <<0>> \o f : f \in GrowingFetches }

\* the pool: start-up, worker threads reaching their first connection attempt,
\* and catalog refreshes
PoolNext ==
  \/ \E f \in Fetches : \E ids \in Orders(IdsOf(f)) : Run(f, ids)
  \/ \E w \in 1..Len(workers) : workers[w].pc = "created" /\ Connect(w)
  \/ \E f \in SharingFetches :
       \E ids \in Orders(IdsOf(f) \ current_asset_ids) : RefetchAndUpdate(f, ids)

PoolSpec == PoolInit /\ [][PoolNext]_vars

\* catalog refreshes of a bot started on market 1, while its workers connect,
\* open and lose their connections
RefreshInit == EngineInit /\ Started(<<1>>)

RefreshNext ==
  \/ \E w \in 1..Len(workers) : Connect(w)
  \/ \E w \in 1..Len(workers) : OnOpen(w)
  \/ \E w \in 1..Len(workers) : RunForeverReturns(w)
  \/ \E f \in GrowingFetches :
       \E ids \in Orders(IdsOf(f) \ current_asset_ids) : RefetchAndUpdate(f, ids)
  \/ RefetchFails

RefreshSpec == RefreshInit /\ [][RefreshNext]_vars

\* the status loop of a bot started on market 1, with a catalog that grows
StatusInit == EngineInit /\ Started(<<1>>)

StatusNext ==
  \/ \E f \in GrowingFetches :
       \E ids \in Orders(IdsOf(f) \ current_asset_ids) :
         now < MaxTime /\ StatusLoop(f, ids)
  \/ now < MaxTime /\ StatusLoopRefetchFails

StatusSpec == StatusInit /\ [][StatusNext]_vars

\* the event loop of a bot on markets 1 and 2 whose workers are connected
LoopInit == EngineInit /\ Streaming(<<1, 2>>)

\* the first worker receives large buys of instrument 1, and every worker
\* sells of the first instrument of its chunk, these at any rate
LoopNext ==
  \/ NumAccepted < MaxLoopEvents
       /\ Produce(1, TradeMessage(1, "BUY", Num(3000), Num(98)))
  \/ \E w \in 1..Len(workers) :
       Produce(w, TradeMessage(Head(workers[w].chunk), "SELL", Num(3000), Num(98)))
  \/ \E t \in DOMAIN loop.tasks : Resume(t)
  \/ \E t \in DOMAIN loop.tasks : SleepOver(t)
  \/ RunAsyncSleeps
  \/ RunAsyncTakes
  \/ AddSpikeReturns
  \/ Broadcast
  \/ StatusRound

LoopSpec == LoopInit /\ [][LoopNext]_vars

\* Sleeps end and a running task goes on. The event loop resumes the ready
\* tasks in the order they became ready, so a task that is ready is resumed
\* once the loop is free often enough: whenever the running task awaits.
\* Nothing is assumed of the worker threads.
LoopFairness ==
  /\ \A t \in {"processor_task", "spike_task"} :
       SF_vars(Resume(t)) /\ WF_vars(SleepOver(t))
  /\ WF_vars(RunAsyncSleeps)
  /\ WF_vars(RunAsyncTakes)
  /\ WF_vars(AddSpikeReturns)
  /\ WF_vars(Broadcast)
  /\ WF_vars(StatusRound)

FairLoopSpec == LoopSpec /\ LoopFairness

\* the event loop of a bot on market 1 and on market 0, which has no outcomes,
\* with its one worker connected
SinkInit == EngineInit /\ Streaming(<<1, 0>>)

\* the worker receives large buys of instrument 1, of market 1, and of
\* instrument 2, of market 0, all within one second; either sink may fail on
\* any record
SinkNext ==
  \/ \E a \in {1, 2} :
       NumAccepted < MaxSinkEvents
         /\ Produce(1, TradeMessage(a, "BUY", Num(3000), Num(98)))
  \/ \E t \in DOMAIN loop.tasks : Resume(t)
  \/ \E t \in DOMAIN loop.tasks : SleepOver(t)
  \/ RunAsyncSleeps
  \/ RunAsyncTakes
  \/ AddSpikeReturns
  \/ AddSpikeFails
  \/ Broadcast
  \/ BroadcastFails
  \/ StatusRound

SinkSpec == SinkInit /\ [][SinkNext]_vars

\* SpikeBot.run calls fetch_all_markets on a catalog of up to MaxPages pages
FetchNext ==
  \/ \E pages \in 0..MaxPages : FetchAllMarkets(pages)
  \/ \E t \in 1..concurrency : NextOffset(t)
  \/ \E t \in 1..concurrency : AttemptRaises(t)
  \/ \E t \in 1..concurrency : AttemptReturns(t)
  \/ Gather

FetchSpec == PoolInit /\ [][FetchNext]_vars

\* The page workers are tasks of one event loop and each awaits only its
\* request, which ends within its timeout, and its sleep between attempts: a
\* worker at its loop test goes on, a request returns or raises, and gather
\* returns once the workers have ended. Nothing is assumed of the server.
FairFetchSpec ==
  /\ FetchSpec
  /\ \A t \in 1..concurrency :
       /\ WF_vars(NextOffset(t))
       /\ WF_vars(AttemptRaises(t) \/ AttemptReturns(t))
  /\ WF_vars(Gather)

\* split_chunks on every id list and every chunk size up to one more than MaxLen
ChunkNext ==
  \E asset_ids \in IdLists, chunk_size \in 1..(MaxLen + 1) :
    SplitChunks(asset_ids, chunk_size)

ChunkSpec == PoolInit /\ [][ChunkNext]_vars

\* the connection loops of the two workers of a bot started on markets 1, 2 and 3
WorkerInit == EngineInit /\ Started(<<1, 2, 3>>)

WorkerNext ==
  \/ \E w \in 1..Len(workers) : Connect(w)
  \/ \E w \in 1..Len(workers) : OnOpen(w)
  \/ \E w \in 1..Len(workers) : OnOpenSendFails(w)
  \/ \E w \in 1..Len(workers) : RunForeverReturns(w)
  \/ \E w \in 1..Len(workers) :
       workers[w].reconnect_attempts < MaxAttempts /\ RunForeverRaises(w)

WorkerSpec == WorkerInit /\ [][WorkerNext]_vars

\* the workers of WorkerInit
WorkerIds == 1..Len(split_chunks(Ascending(IdsOf(<<1, 2, 3>>)), CHUNK_SIZE))

\* Each worker runs in a thread of its own, and the sleep of the except
\* branch is finite: a worker that is at its loop test, or asleep, gets there
\* and starts its next attempt. Nothing is assumed of the server or the network.
FairWorkerSpec == WorkerSpec /\ \A w \in WorkerIds : WF_vars(Connect(w))

\* ------------------------------------------------------------------ claims
AllLow(trades) == \A i \in 1..Len(trades) : trades[i].price <= MAX_SIGNAL_PRICE

\* the trade a qualifying event stands for
TradeOf(ev) ==
  [asset_id |-> ev.asset_id, size |-> ev.size, price |-> ev.price, side |-> ev.side,
   usd_value |-> ev.size * ev.price, timestamp |-> ev.ts]

\* the trades of a sequence that are at most a window old at time t, in order
Recent(trades, t) == SelectSeq(trades, LAMBDA x : t - x.timestamp <= TIME_WINDOW)

\* the count condition of the step for instrument a: the window after pruning
\* against the last alerted count, reset when the count fell below the threshold
CountConditionMet(a) ==
  LET c == Len(WindowIn(asset_counters', a))
      lac == IF Dropped(a) THEN 0 ELSE LacIn(asset_counters, a)
  IN  c >= SPIKE_THRESHOLD /\ c > lac /\ c % SPIKE_THRESHOLD = 0

\* C1: while none of an instrument's qualifying low-price trades has been pruned,
\* handling the K-th of them emits an alert if and only if K is a multiple of
\* SPIKE_THRESHOLD.
C1_ThresholdFiring ==
  [][\A a \in AssetIds :
       ( /\ Handled(a)
         /\ Len(WindowIn(asset_counters', a)) = accepted'[a]
         /\ AllLow(WindowIn(asset_counters', a)) )
       => /\ Emitted(a) <=> (accepted'[a] % SPIKE_THRESHOLD = 0)
          /\ Emitted(a) \/ NoAlert]_vars

C1_Witness ==
  /\ accepted[1] = 2 * SPIKE_THRESHOLD
  /\ Len(WindowIn(asset_counters, 1)) = 2 * SPIKE_THRESHOLD
  /\ AllLow(WindowIn(asset_counters, 1))
  /\ Len(spikes) = 2
  /\ spikes[1].count = SPIKE_THRESHOLD
  /\ spikes[2].count = 2 * SPIKE_THRESHOLD

\* C2: an alert never carries a count that an earlier alert of the same instrument
\* carried, unless pruning took the instrument's count below SPIKE_THRESHOLD in
\* between.
C2_NoDuplicateAlert ==
  [][\A a \in AssetIds :
       Emitted(a) => spikes'[Len(spikes')].count \notin alerted[a]]_vars

\* the window slid after an alert: a trade left as another came, the count stayed
C2_Witness ==
  /\ alerted[1] = {SPIKE_THRESHOLD}
  /\ accepted[1] = SPIKE_THRESHOLD + 1
  /\ CountIn(asset_counters, 1) = SPIKE_THRESHOLD
  /\ event.asset_id = 1 /\ event.side = "BUY" /\ event.price <= MAX_SIGNAL_PRICE
  /\ event.size * event.price >= MIN_BUY_USD * 100
  /\ Len(spikes) = 1

\* C3: when pruning takes a count from SPIKE_THRESHOLD or more to less,
\* last_alert_count becomes 0, and the next trade that brings the count to
\* SPIKE_THRESHOLD at a price of at most MAX_SIGNAL_PRICE emits an alert.
C3_ResetOnDrop ==
  [][\A a \in AssetIds :
       /\ Dropped(a) => LacIn(asset_counters', a) = 0
       /\ ( /\ rearmed[a]
            /\ Handled(a)
            /\ CountIn(asset_counters', a) >= SPIKE_THRESHOLD
            /\ event'.price <= MAX_SIGNAL_PRICE )
          => Emitted(a)]_vars

\* alert, drop below the threshold, alert again at the same count
C3_Witness ==
  /\ Len(spikes) = 2
  /\ spikes[1].asset_id = 1 /\ spikes[2].asset_id = 1
  /\ spikes[1].count = SPIKE_THRESHOLD
  /\ spikes[2].count = SPIKE_THRESHOLD
  /\ ~rearmed[1]

\* C4: after handle_spike has pruned, the window holds exactly the earlier trades
\* and the new one that are at most TIME_WINDOW old, in arrival order, and count
\* is its length.
C4_PruningCorrectness ==
  [][\A a \in AssetIds :
       Handled(a) =>
         /\ WindowIn(asset_counters', a) =
              Recent(Append(WindowIn(asset_counters, a), TradeOf(event')), now)
         /\ CountIn(asset_counters', a) = Len(WindowIn(asset_counters', a))]_vars

\* a trade aged exactly TIME_WINDOW heads the window, an older one has left it
C4_Witness ==
  /\ 1 \in DOMAIN asset_counters
  /\ asset_counters[1].last_activity = now
  /\ asset_counters[1].count >= 2
  /\ now - asset_counters[1].recent_trades[1].timestamp = TIME_WINDOW
  /\ accepted[1] > asset_counters[1].count

\* C5: when the count condition is met and the triggering price is above
\* MAX_SIGNAL_PRICE nothing is handed to either sink; at a price of at most
\* MAX_SIGNAL_PRICE the alert is handed to both.
C5_PriceSuppression ==
  [][\A a \in AssetIds :
       (Handled(a) /\ CountConditionMet(a)) =>
         IF event'.price > MAX_SIGNAL_PRICE THEN NoAlert ELSE Emitted(a)]_vars

\* an alert went out at a price equal to MAX_SIGNAL_PRICE after one was suppressed
C5_Witness ==
  /\ Len(spikes) = 1
  /\ spikes[1].price = MAX_SIGNAL_PRICE
  /\ spikes[1].count = 2 * SPIKE_THRESHOLD
  /\ asset_counters[1].recent_trades[SPIKE_THRESHOLD].price > MAX_SIGNAL_PRICE
  /\ accepted[1] = 2 * SPIKE_THRESHOLD

\* C6: handling a trade that is not a BUY, or a BUY below MIN_BUY_USD, changes no
\* counter, creates none and emits nothing; a BUY of exactly MIN_BUY_USD on a known
\* instrument is appended to the instrument's window.
C6_IrrelevantTradeRejection ==
  [][/\ ( /\ now' = now
          /\ event'.side # "BUY" \/ event'.size * event'.price < MIN_BUY_USD * 100 )
        => (asset_counters' = asset_counters /\ NoAlert)
     /\ \A a \in AssetIds :
          (Handled(a) /\ event'.size * event'.price = MIN_BUY_USD * 100)
          => /\ a \in DOMAIN asset_counters'
             /\ asset_counters'[a].last_activity = now
             /\ asset_counters'[a].recent_trades =
                  Recent(Append(WindowIn(asset_counters, a), TradeOf(event')), now)
             /\ \A b \in DOMAIN asset_counters :
                  b # a => asset_counters'[b] = asset_counters[b]]_vars

\* a SELL was handled while both instruments have a window, one of them holding a
\* buy of exactly MIN_BUY_USD
C6_Witness ==
  /\ event.side = "SELL"
  /\ DOMAIN asset_counters = {1, 2}
  /\ asset_counters[1].count >= 1 /\ asset_counters[2].count >= 1
  /\ \E i \in 1..asset_counters[event.asset_id].count :
       asset_counters[event.asset_id].recent_trades[i].usd_value = MIN_BUY_USD * 100

\* C7: an alert carries the length of the pruned window, a positive multiple of
\* SPIKE_THRESHOLD, the sum of usd_value over that window, and the price of the
\* trade whose handling triggered it.
C7_AlertContent ==
  [][\A a \in AssetIds :
       Emitted(a) =>
         LET alert == spikes'[Len(spikes')]
             window == Recent(Append(WindowIn(asset_counters, a), TradeOf(event')), now)
         IN  /\ Handled(a)
             /\ alert.count = Len(window)
             /\ alert.count > 0 /\ alert.count % SPIKE_THRESHOLD = 0
             /\ alert.amount_usd = SumUsd(window)
             /\ alert.price = event'.price]_vars

\* an alert over a window that has lost trades and holds trades of both sizes
C7_Witness ==
  /\ Len(spikes) >= 1
  /\ LET alert == spikes[Len(spikes)]
     IN  /\ alert.asset_id = 1
         /\ accepted[1] > alert.count
         /\ asset_counters[1].count = alert.count
         /\ alert.timestamp = now
         /\ alert.amount_usd = SumUsd(asset_counters[1].recent_trades)
         /\ \E i, j \in 1..alert.count :
              asset_counters[1].recent_trades[i].usd_value #
                asset_counters[1].recent_trades[j].usd_value

\* ------------------------------------------------------------------ pool claims
\* the workers whose chunk holds the id
Holders(id) == { w \in 1..Len(workers) : id \in Range(workers[w].chunk) }

\* C8 (rebalance conservation): after subscribe_new_assets(new_ids) has returned,
\* every id of new_ids is in the chunk of exactly one worker, whatever the pool
\* was when it was called. Chunks only grow, so the last call is judged in every
\* later state.
C8_RebalanceConservation ==
  rebalance.called =>
    \A id \in Range(rebalance.new_ids) : Cardinality(Holders(id)) = 1

RECURSIVE SpareSum(_, _)
SpareSum(spare, S) ==
  IF S = {} THEN 0
  ELSE LET i == CHOOSE j \in S : TRUE
       IN  spare[i] + SpareSum(spare, S \ {i})

RECURSIVE Flatten(_)
Flatten(seqs) == IF seqs = <<>> THEN <<>> ELSE Head(seqs) \o Flatten(Tail(seqs))

\* C9 (greedy fill then spawn): in the last call of subscribe_new_assets, the
\* workers with spare capacity are served in order of descending spare capacity
\* (ties in worker order): each gets the next ids of new_ids up to its spare
\* capacity, and a later worker gets ids only when the earlier ones are full;
\* workers are spawned only if new_ids is longer than the total spare capacity,
\* and then for exactly the remainder, in chunks of 1..CHUNK_SIZE ids.
C9_GreedyFillThenSpawn ==
  rebalance.called =>
    LET spare == rebalance.spare
        new_ids == rebalance.new_ids
        N == Len(new_ids)
        open == { i \in 1..Len(spare) : spare[i] > 0 }
        fuller(i) == { j \in open : spare[j] > spare[i] \/ (spare[j] = spare[i] /\ j < i) }
        off(i) == SpareSum(spare, fuller(i))
        total == SpareSum(spare, open)
    IN  /\ \A i \in 1..Len(rebalance.given) :
             rebalance.given[i] =
               IF i \in open /\ off(i) < N
               THEN SubSeq(new_ids, off(i) + 1, Min(N, off(i) + spare[i]))
               ELSE <<>>
        /\ rebalance.chunks # <<>> =>
             /\ N > total
             /\ Flatten(rebalance.chunks) = SubSeq(new_ids, total + 1, N)
             /\ \A k \in 1..Len(rebalance.chunks) :
                  /\ Len(rebalance.chunks[k]) >= 1
                  /\ Len(rebalance.chunks[k]) <= CHUNK_SIZE

\* a call that served two workers of different spare capacity, the one with
\* more spare first and to the full, and spawned a worker for the remainder
C9_Witness ==
  /\ rebalance.called
  /\ rebalance.chunks # <<>>
  /\ \E i, j \in 1..Len(rebalance.given) :
       /\ i < j
       /\ 0 < rebalance.spare[i]
       /\ rebalance.spare[i] < rebalance.spare[j]
       /\ rebalance.given[i] # <<>>
       /\ Len(rebalance.given[j]) = rebalance.spare[j]
       /\ Head(rebalance.given[j]) = Head(rebalance.new_ids)

\* ------------------------------------------------------------------ worker claims
\* C10 (backoff on every terminal transition): a worker whose connection has
\* ended, by run_forever returning or by the attempt raising, sleeps before its
\* next connection attempt: no worker is connecting while a sleep is owed.
C10_BackoffOnEveryEnd ==
  \A w \in 1..Len(workers) :
    workers[w].pc = "connecting" => ~workers[w].owed

\* C11 (backoff delay sequence): the n-th sleep since reconnect_attempts was
\* last reset, counted from n = 0, lasts 5 * 2^min(n, 5) seconds: 5, 10, 20,
\* 40, 80, 160, 160, ...; so the first sleep is 5, the sleeps never decrease
\* and none exceeds 5 * 2^5.
C11_DelaySequence ==
  \A w \in 1..Len(workers) :
    \A k \in 1..Len(workers[w].slept) :
      /\ workers[w].slept[k] = 5 * Pow2(Min(k - 1, 5))
      /\ k > 1 => workers[w].slept[k - 1] <= workers[w].slept[k]
      /\ workers[w].slept[k] <= 5 * Pow2(5)

\* the sleep of a newly constructed worker after its first raising attempt
FirstDelay == 5 * Pow2(Min(NewWorker(<<>>).reconnect_attempts + 1, 5))

\* C12 (attempt reset): once on_open has sent the subscription on a connection,
\* reconnect_attempts is 0 while that connection streams, and the first sleep
\* after it is the first sleep of the sequence, however many attempts failed
\* before the connection opened.
C12_AttemptReset ==
  \A w \in 1..Len(workers) :
    /\ (workers[w].pc = "streaming" /\ workers[w].subscribed) =>
         workers[w].reconnect_attempts = 0
    /\ workers[w].slept # <<>> => workers[w].slept[1] = FirstDelay

\* a worker that opened a connection after failed attempts and sleeps for the
\* first time after that open
C12_Witness ==
  \E w \in 1..Len(workers) :
    /\ workers[w].reset_from > 0
    /\ workers[w].pc = "backoff"
    /\ Len(workers[w].slept) = 1

\* ------------------------------------------------------------------ queue claims
\* C13 (non-suspending queue push): no worker stays inside queue.put for good:
\* while a worker waits there for a free slot, the engine is taking events off
\* the queue. (Once run_async is cancelled no slot is ever freed.)
C13_NonSuspendingPush ==
  \A w \in 1..Len(workers) :
    workers[w].put # <<>> => processor_task = "running"

\* C14 (shutdown): once stop_bots has run, the task of run_async is cancelled
\* and the running flag of every worker is false.
C14_Shutdown ==
  bot_pc = "stopped" =>
    /\ processor_task = "cancelled"
    /\ \A w \in 1..Len(workers) : ~workers[w].running

\* what the claim asks of a message for its trade to be handled
Acceptable(message) ==
  /\ message.form = "object"
  /\ {"asset_id", "side", "size", "price", "event_type"} \subseteq message.keys
  /\ message.asset_id # 0
  /\ message.side # ""
  /\ message.size.tag = "num" /\ message.size.val > 0
  /\ message.price.tag = "num" /\ message.price.val > 0
  /\ message.event_type = "last_trade_price"

\* C15 (message acceptance): a call of on_message with a message that is not
\* acceptable leaves the worker's connection state and reconnect_attempts as
\* they are, and the engine changes its state only for an event whose asset_id
\* and side are non-empty and whose size and price are numbers above 0; an
\* event is put only for a JSON object that has all five keys, numeric size
\* and price, and event_type last_trade_price.
C15_MessageAcceptance ==
  [][ /\ (received' # received /\ ~Acceptable(inbound')) =>
           \A w \in 1..Len(workers) :
             /\ workers'[w].pc = workers[w].pc
             /\ workers'[w].reconnect_attempts = workers[w].reconnect_attempts
      /\ arrivals' # arrivals =>
           /\ inbound'.form = "object"
           /\ {"asset_id", "side", "size", "price", "event_type"} \subseteq inbound'.keys
           /\ inbound'.size.tag # "text" /\ inbound'.price.tag # "text"
           /\ inbound'.event_type = "last_trade_price"
      /\ (handled_log' # handled_log /\ engineVars' # engineVars) =>
           /\ event'.asset_id # 0
           /\ event'.side # ""
           /\ Gt(event'.size, 0)
           /\ Gt(event'.price, 0) ]_vars

OfAsset(log, a) == SelectSeq(log, LAMBDA d : d.asset_id = a)

\* C17 (per-instrument ordering): the events of one instrument that run_async
\* has taken off the queue are, in that order, the first of the events of that
\* instrument that on_message put, in order of arrival.
C17_PerInstrumentOrdering ==
  \A a \in { arrivals[i].asset_id : i \in 1..Len(arrivals) } :
    LET h == OfAsset(handled_log, a)
        r == OfAsset(arrivals, a)
    IN  /\ Len(h) <= Len(r)
        /\ h = SubSeq(r, 1, Len(h))

\* two workers interleaved: a later arrival of one worker was handled before an
\* earlier arrival of the other, between two events of one instrument
C17_Witness ==
  \E i, j, k \in 1..Len(handled_log) :
    /\ i < j /\ j < k
    /\ handled_log[i].asset_id = handled_log[k].asset_id
    /\ handled_log[j].worker # handled_log[k].worker
    /\ handled_log[j].n > handled_log[k].n

\* C20 (unknown instrument): when run_async takes an event off the queue whose
\* asset_id is not a key of asset_map, no counter is created or changed, no
\* alert is emitted, and the engine keeps running with the rest of the queue.
C20_UnknownInstrument ==
  [][ (handled_log' # handled_log /\ Head(queue).asset_id \notin DOMAIN asset_map) =>
        /\ asset_counters' = asset_counters
        /\ spikes' = spikes
        /\ broadcasts' = broadcasts
        /\ queue' = Tail(queue)
        /\ processor_task' = "running" ]_vars

\* an event of an unmapped instrument was dropped and the event queued behind
\* it was handled and counted
C20_Witness ==
  \E i \in 1..Len(handled_log) :
    /\ i < Len(handled_log)
    /\ handled_log[i].asset_id \notin DOMAIN asset_map
    /\ handled_log[i + 1].asset_id \in DOMAIN asset_counters
    /\ handled_log[i + 1].n > handled_log[i].n

\* ------------------------------------------------------------------ split_chunks claims
\* C16 (partition): the chunks of split_chunks(ids, n), concatenated in order,
\* are ids; every chunk has 1 to n ids and every chunk but the last exactly n;
\* an empty list gives no chunk.
C16_Partition ==
  call.fn = "split_chunks" =>
    LET chunks == call.result
        n == call.chunk_size
    IN  /\ Flatten(chunks) = call.asset_ids
        /\ \A k \in 1..Len(chunks) :
             /\ Len(chunks[k]) >= 1
             /\ Len(chunks[k]) <= n
             /\ k < Len(chunks) => Len(chunks[k]) = n
        /\ call.asset_ids = <<>> => chunks = <<>>

\* a call that gave full chunks and a shorter last one
C16_Witness ==
  /\ call.fn = "split_chunks"
  /\ Len(call.result) >= 2
  /\ Len(call.result[Len(call.result)]) < call.chunk_size
  /\ Len(call.result[1]) = call.chunk_size

\* ------------------------------------------------------------------ refresh claims
\* the ids of the subscriptions a worker has sent on its connection
Subscribed(worker) == UNION { Range(worker.sent[k]) : k \in 1..Len(worker.sent) }

\* C18 (incremental subscription): a call of subscribe_new_assets that hands
\* ids to a worker whose connection is open appends exactly those ids to the
\* worker's chunk and sends exactly one subscription, of exactly those ids,
\* and leaves the connection and reconnect_attempts as they are; and however
\* the calls interleave with on_open and the connection loop, a worker whose
\* on_open has subscribed has subscribed to every id of its chunk.
C18_IncrementalSubscription ==
  /\ [](\A w \in 1..Len(workers) :
          (workers[w].pc = "streaming" /\ workers[w].subscribed) =>
             Range(workers[w].chunk) \subseteq Subscribed(workers[w]))
  /\ [][ rebalance' # rebalance =>
           \A i \in 1..Len(workers) :
             (workers[i].pc = "streaming" /\ rebalance'.given[i] # <<>>) =>
               /\ workers'[i].chunk = workers[i].chunk \o rebalance'.given[i]
               /\ workers'[i].sent = Append(workers[i].sent, rebalance'.given[i])
               /\ workers'[i].pc = workers[i].pc
               /\ workers'[i].ws = workers[i].ws
               /\ workers'[i].reconnect_attempts = workers[i].reconnect_attempts ]_vars

\* a worker with an open connection whose last subscription is the ids the
\* last refresh handed to it
C18_Witness ==
  /\ rebalance.called
  /\ \E i \in 1..Len(rebalance.given) :
       /\ rebalance.given[i] # <<>>
       /\ workers[i].pc = "streaming"
       /\ Len(workers[i].sent) >= 2
       /\ workers[i].sent[Len(workers[i].sent)] = rebalance.given[i]
       /\ workers[i].sent[1] # rebalance.given[i]

\* C19 (failed refresh is a no-op): a call of refetch_and_update in which the
\* fetch or the filter raises leaves filtered_markets, current_asset_ids,
\* asset_map and the workers with their chunks as they are, and the bot stays
\* in its status loop.
C19_FailedRefreshNoOp ==
  [][ (call' # call /\ call'.fn = "refetch_and_update") =>
        /\ filtered_markets' = filtered_markets
        /\ current_asset_ids' = current_asset_ids
        /\ asset_map' = asset_map
        /\ workers' = workers
        /\ bot_pc' = "running" ]_vars

\* a refresh failed in a bot that has added markets and workers
C19_Witness ==
  /\ call.fn = "refetch_and_update"
  /\ rebalance.called
  /\ Len(workers) >= 2
  /\ Len(filtered_markets) >= 2

\* ------------------------------------------------------------------ catalog claims
\* the instrument ids in the chunks of the workers
Chunked == UNION { Range(workers[w].chunk) : w \in 1..Len(workers) }

\* C21 (one worker per instrument): in every reachable state, after start-up
\* and any number of refreshes, also of markets that list an instrument another
\* market lists, no id is in the chunks of two workers and no id is twice in
\* one chunk.
C21_OneWorkerPerInstrument ==
  /\ \A id \in Chunked : Cardinality(Holders(id)) = 1
  /\ \A w \in 1..Len(workers) :
       Cardinality(Range(workers[w].chunk)) = Len(workers[w].chunk)

\* a pool started on markets that share an instrument, refreshed with a market
\* that shares an instrument with them, every id held by a worker
C21_Witness ==
  /\ rebalance.called
  /\ Len(workers) >= 2
  /\ filtered_markets[1] = 0
  /\ \E k \in 2..Len(filtered_markets) :
       /\ filtered_markets[k] = 2
       /\ Range(MarketAssetIds(2)) \cap Range(rebalance.new_ids) # {}
       /\ ~(Range(MarketAssetIds(2)) \subseteq Range(rebalance.new_ids))
  /\ Chunked = current_asset_ids

\* C22 (chunk capacity): in every reachable state, after start-up and any
\* sequence of calls of subscribe_new_assets, every worker's chunk has at most
\* CHUNK_SIZE ids.
C22_ChunkCapacity ==
  \A w \in 1..Len(workers) : Len(workers[w].chunk) <= CHUNK_SIZE

\* a call that filled a worker up to CHUNK_SIZE, had more ids than that worker
\* had room for, and started a worker for the rest
C22_Witness ==
  /\ rebalance.called
  /\ rebalance.chunks # <<>>
  /\ \E i \in 1..Len(rebalance.given) :
       /\ rebalance.given[i] # <<>>
       /\ Len(rebalance.new_ids) > Len(rebalance.given[i])
       /\ Len(workers[i].chunk) = CHUNK_SIZE

\* C23 (refresh delta): a refresh hands subscribe_new_assets only ids of markets
\* that were not in filtered_markets, and none that was in current_asset_ids;
\* no id is handed over by two refreshes; and a step of the running bot that
\* hands nothing over leaves filtered_markets, current_asset_ids, asset_map, the
\* number of workers and every chunk as they are.
C23_RefreshDelta ==
  /\ [](rebalance.called => Range(rebalance.new_ids) \cap rebalance.earlier = {})
  /\ [][ IF rebalance' # rebalance
         THEN LET ids == Range(rebalance'.new_ids)
                  new_markets == Range(filtered_markets') \ Range(filtered_markets)
              IN  /\ ids # {}
                  /\ ids \cap current_asset_ids = {}
                  /\ \A id \in ids :
                       \E m \in new_markets : id \in Range(MarketAssetIds(m))
         ELSE bot_pc = "running" =>
                /\ filtered_markets' = filtered_markets
                /\ current_asset_ids' = current_asset_ids
                /\ asset_map' = asset_map
                /\ Len(workers') = Len(workers)
                /\ \A w \in 1..Len(workers) : workers'[w].chunk = workers[w].chunk ]_vars

\* a second refresh that added market 0 and handed over only the id that no
\* market tracked before listed
C23_Witness ==
  /\ rebalance.called
  /\ rebalance.earlier # {}
  /\ filtered_markets[Len(filtered_markets)] = 0
  /\ Len(rebalance.new_ids) = 1

\* C24 (additive instrument mapping): a step of the running bot never removes a
\* key of asset_map and never changes the record under a key it had, also when
\* a market added by a refresh lists an instrument that a tracked market lists.
C24_AdditiveMapping ==
  [][ bot_pc = "running" =>
        \A a \in DOMAIN asset_map :
          a \in DOMAIN asset_map' /\ asset_map'[a] = asset_map[a] ]_vars

\* ------------------------------------------------------------------ status loop claims
\* C25 (refresh interval): two consecutive calls of refetch_and_update by the
\* status loop are at least REFETCH_INTERVAL seconds apart, whether the earlier
\* one added instruments, found no new market, or failed.
C25_RefreshInterval ==
  Len(refetched) = 2 => refetched[2] - refetched[1] >= REFETCH_INTERVAL

\* ------------------------------------------------------------------ event loop claims
\* C26 (the engine does not starve the orchestrator): whatever the workers put
\* on the queue and however fast, once the status loop's sleep is over the
\* event loop gets to run the status loop.
C26_NoStarvation ==
  (loop.tasks.spike_task = "ready") ~> (loop.tasks.spike_task = "running")

\* C30 (fire-and-forget sinks): while a record handed to a sink is not yet
\* through it (add_spike has not returned, or a task of broadcast has not run),
\* the engine is not held up: with an event on the queue it can take it.
C30_FireAndForget ==
  (/\ loop.tasks.processor_task = "running"
   /\ queue # <<>>
   /\ (loop.add_spike # <<>> \/ loop.created # <<>>))
    => ENABLED RunAsyncTakes

\* ------------------------------------------------------------------ delivery claims
\* the numbers of the events in a sequence
Numbers(events) == { events[i].n : i \in 1..Len(events) }

\* the numbers of the events the worker threads hold inside queue.put
Waiting ==
  { workers[w].put[1].n : w \in { v \in 1..Len(workers) : workers[v].put # <<>> } }

\* C27 (exactly-once consumption and progress): every event a worker has put is
\* in exactly one place: waiting inside put, on the queue once, or taken by the
\* engine once; the engine takes nothing else; and while the task of run_async
\* is not cancelled, every event on the queue is eventually taken.
C27_ExactlyOnce ==
  /\ [](/\ Cardinality(Numbers(handled_log)) = Len(handled_log)
        /\ Cardinality(Numbers(queue)) = Len(queue)
        /\ Numbers(handled_log) \cap Numbers(queue) = {}
        /\ Numbers(handled_log) \cap Waiting = {}
        /\ Numbers(queue) \cap Waiting = {}
        /\ Numbers(handled_log) \cup Numbers(queue) \cup Waiting = Numbers(arrivals)
        /\ Range(handled_log) \cup Range(queue) \subseteq Range(arrivals))
  /\ \A n \in 1..MaxMessages :
       (n \in Numbers(queue))
         ~> (n \in Numbers(handled_log) \/ processor_task = "cancelled")

\* every event of two workers was taken, one of them after the queue was full
C27_Witness ==
  /\ Len(handled_log) = MaxMessages
  /\ queue = <<>>
  /\ Waiting = {}
  /\ Numbers(handled_log) = Numbers(arrivals)
  /\ \E i, j \in 1..Len(handled_log) : handled_log[i].worker # handled_log[j].worker
  /\ \E i \in 1..(Len(handled_log) - 1) : handled_log[i].n > handled_log[i + 1].n

\* C28 (bounded queue): the event queue never holds more events than maxsize,
\* whatever the relative speed of the workers and the engine.
C28_BoundedQueue == Len(queue) <= maxsize

\* the queue is full and two workers wait inside queue.put
C28_Witness ==
  /\ Len(queue) = maxsize
  /\ Cardinality(Waiting) = 2

\* C29 (delivery to both sinks): a step that handles a trade which meets the
\* count condition at a price of at most MAX_SIGNAL_PRICE hands one record to
\* add_spike and the same record to broadcast, once each; no other step hands
\* anything to either sink.
C29_BothSinks ==
  [][ IF \E a \in AssetIds :
           Handled(a) /\ CountConditionMet(a) /\ event'.price <= MAX_SIGNAL_PRICE
      THEN /\ Len(spikes') = Len(spikes) + 1
           /\ SubSeq(spikes', 1, Len(spikes)) = spikes
           /\ Len(broadcasts') = Len(broadcasts) + 1
           /\ SubSeq(broadcasts', 1, Len(broadcasts)) = broadcasts
           /\ broadcasts'[Len(broadcasts')] = spikes'[Len(spikes')]
           /\ spikes'[Len(spikes')].asset_id = event'.asset_id
      ELSE spikes' = spikes /\ broadcasts' = broadcasts ]_vars

\* two alerts went to both sinks, the second for a window that holds a trade
\* above MAX_SIGNAL_PRICE
C29_Witness ==
  /\ Len(spikes) = 2
  /\ broadcasts = spikes
  /\ spikes[1].count = SPIKE_THRESHOLD
  /\ spikes[2].count = 2 * SPIKE_THRESHOLD
  /\ spikes[2].amount_usd # 2 * spikes[1].amount_usd
  /\ \E i \in 1..asset_counters[1].count :
       asset_counters[1].recent_trades[i].price > MAX_SIGNAL_PRICE

\* ------------------------------------------------------------------ counter claims
\* C36 (counter invariant): after every handle_spike, last_alert_count of every
\* counter is 0 or a positive multiple of SPIKE_THRESHOLD, and it is 0 when the
\* count is below SPIKE_THRESHOLD; it changes only in a step in which the alert
\* condition fires (to the count) or in which pruning takes the count from
\* SPIKE_THRESHOLD or more to less (to 0).
C36_CounterInvariant ==
  /\ [](\A a \in DOMAIN asset_counters :
          /\ asset_counters[a].last_alert_count >= 0
          /\ asset_counters[a].last_alert_count % SPIKE_THRESHOLD = 0
          /\ asset_counters[a].count < SPIKE_THRESHOLD
               => asset_counters[a].last_alert_count = 0)
  /\ [][\A a \in AssetIds :
         LacIn(asset_counters', a) # LacIn(asset_counters, a) =>
           \/ /\ CountConditionMet(a)
              /\ LacIn(asset_counters', a) = CountIn(asset_counters', a)
           \/ /\ Dropped(a)
              /\ LacIn(asset_counters', a) = 0]_vars

\* a counter that alerted at the threshold, then fell below the threshold and
\* was reset, and holds trades again
C36_Witness ==
  /\ 1 \in DOMAIN asset_counters
  /\ Len(spikes) = 1
  /\ spikes[1].count = SPIKE_THRESHOLD
  /\ accepted[1] > SPIKE_THRESHOLD + 1
  /\ asset_counters[1].last_alert_count = 0
  /\ asset_counters[1].count >= 1
  /\ asset_counters[1].count < SPIKE_THRESHOLD

\* C37 (a suppressed alert consumes the crossing): a step in which the count
\* condition fires at a price above MAX_SIGNAL_PRICE hands nothing to the sinks
\* and still sets last_alert_count to the count; and an alert is emitted only
\* at a count above the last_alert_count the counter had, which stays at the
\* suppressed multiple until the count falls below SPIKE_THRESHOLD.
C37_SuppressedConsumes ==
  [][\A a \in AssetIds :
       /\ (Handled(a) /\ CountConditionMet(a) /\ event'.price > MAX_SIGNAL_PRICE)
            => /\ NoAlert
               /\ LacIn(asset_counters', a) = CountIn(asset_counters', a)
       /\ Emitted(a) =>
            /\ CountIn(asset_counters', a) > LacIn(asset_counters, a)
            /\ LacIn(asset_counters, a) # 0 => CountIn(asset_counters, a) >= SPIKE_THRESHOLD
       /\ (LacIn(asset_counters, a) # 0 /\ ~Dropped(a))
            => LacIn(asset_counters', a) >= LacIn(asset_counters, a)]_vars

\* the crossing of the threshold was suppressed by its price; the window then
\* slid to a trade at an acceptable price at the same count, and nothing was
\* emitted
C37_Witness ==
  /\ spikes = <<>>
  /\ 1 \in DOMAIN asset_counters
  /\ accepted[1] = SPIKE_THRESHOLD + 1
  /\ asset_counters[1].count = SPIKE_THRESHOLD
  /\ asset_counters[1].last_alert_count = SPIKE_THRESHOLD
  /\ asset_counters[1].recent_trades[SPIKE_THRESHOLD - 1].price > MAX_SIGNAL_PRICE
  /\ asset_counters[1].recent_trades[SPIKE_THRESHOLD].price <= MAX_SIGNAL_PRICE
  /\ event.asset_id = 1 /\ event.side = "BUY" /\ event.price <= MAX_SIGNAL_PRICE
  /\ event.size * event.price >= MIN_BUY_USD * 100

\* the step handled a trade of instrument a and pruning removed at least one
\* trade, leaving SPIKE_THRESHOLD or more
PartialDrop(a) ==
  /\ Handled(a)
  /\ CountIn(asset_counters, a) >= SPIKE_THRESHOLD
  /\ CountIn(asset_counters', a) <= CountIn(asset_counters, a)
  /\ CountIn(asset_counters', a) >= SPIKE_THRESHOLD

\* C38 (partial drop keeps suppression): when pruning lowers a count and leaves
\* it at SPIKE_THRESHOLD or more, last_alert_count stays as it is and nothing is
\* emitted; and as long as the count has not fallen below SPIKE_THRESHOLD, an
\* alert is emitted only at a count above every count alerted before, also
\* when the count climbs back with trades that are all new.
C38_PartialDropKeepsSuppression ==
  [][\A a \in AssetIds :
       /\ PartialDrop(a) =>
            /\ LacIn(asset_counters', a) = LacIn(asset_counters, a)
            /\ NoAlert
       /\ Emitted(a) =>
            \A c \in alerted[a] : spikes'[Len(spikes')].count > c]_vars

\* alerts at the threshold and at twice the threshold; the window then slid
\* twice without the count falling below the threshold, and the count is back
\* at twice the threshold with none of the trades that were alerted on
C38_Witness ==
  /\ 1 \in DOMAIN asset_counters
  /\ Len(spikes) = 2
  /\ alerted[1] = {SPIKE_THRESHOLD, 2 * SPIKE_THRESHOLD}
  /\ asset_counters[1].count = 2 * SPIKE_THRESHOLD
  /\ asset_counters[1].last_alert_count = 2 * SPIKE_THRESHOLD
  /\ accepted[1] = 4 * SPIKE_THRESHOLD
  /\ \A i \in 1..asset_counters[1].count :
       asset_counters[1].recent_trades[i].timestamp > spikes[2].timestamp

\* C35 (counter lifecycle): a step never removes a key of asset_counters, and
\* it adds the key of an instrument only by handling a BUY of that instrument,
\* known to asset_map, whose usd_value is MIN_BUY_USD or more.
C35_CounterLifecycle ==
  [][ /\ DOMAIN asset_counters \subseteq DOMAIN asset_counters'
      /\ \A a \in DOMAIN asset_counters' \ DOMAIN asset_counters :
           /\ event'.asset_id = a
           /\ a \in DOMAIN asset_map
           /\ event'.side = "BUY"
           /\ Ge(Mul(event'.size, event'.price), MIN_BUY_USD * 100) ]_vars

\* the step is the call of add_spike by trigger_alert
HandedOver == loop.add_spike = <<>> /\ loop'.add_spike # <<>>

\* the step is a failure of the persistence sink
PersistenceFailed == loop.add_spike # <<>> /\ loop'.add_spike = <<>> /\ spikes' = spikes

\* the step is a failure of the broadcast sink
BroadcastFailed == Len(loop'.created) < Len(loop.created) /\ broadcasts' = broadcasts

\* the step is an iteration of run_async in which trigger_alert raised
HandlingRaised ==
  /\ queue # <<>> /\ queue' = Tail(queue)
  /\ event'.asset_id \in DOMAIN asset_map
  /\ Handled(event'.asset_id)
  /\ AlertCondition(asset_counters'[event'.asset_id])
  /\ Raises(asset_map[event'.asset_id])

\* C31 (sink and event error containment): the task of run_async never ends:
\* it is ready, running or awaiting its sleep in every state;
\* a failure of either sink changes no counter and no task; an iteration in
\* which trigger_alert raises hands nothing to a sink and leaves run_async
\* awaiting its sleep; every record handed to the sinks has a count above
\* last_alert_count and is recorded in it by the same iteration, and
\* last_alert_count is lowered only by a drop below SPIKE_THRESHOLD.
C31_ErrorContainment ==
  /\ [](loop.tasks.processor_task \in {"ready", "running", "sleeping"})
  /\ [][ /\ (PersistenceFailed \/ BroadcastFailed) =>
              /\ asset_counters' = asset_counters
              /\ loop'.tasks = loop.tasks
              /\ queue' = queue
         /\ PersistenceFailed => loop'.created = Append(loop.created, loop.add_spike[1])
         /\ HandlingRaised =>
              /\ loop'.tasks.processor_task = "sleeping"
              /\ loop'.add_spike = <<>> /\ loop'.created = loop.created
              /\ spikes' = spikes /\ broadcasts' = broadcasts
         /\ HandedOver =>
              LET r == loop'.add_spike[1]
              IN  /\ r.count > LacIn(asset_counters, r.asset_id)
                  /\ LacIn(asset_counters', r.asset_id) = r.count
         /\ \A a \in AssetIds :
              LacIn(asset_counters', a) < LacIn(asset_counters, a) => Dropped(a) ]_vars

\* the crossing of instrument 1 was alerted and both sinks failed on its
\* record, and trigger_alert raised on the crossing of instrument 2; the
\* crossing of instrument 1 is recorded, and the engine has handled a trade
\* after each of the two
C31_Witness ==
  /\ DOMAIN asset_counters = {1, 2}
  /\ asset_counters[1].count = SPIKE_THRESHOLD + 1
  /\ asset_counters[1].last_alert_count = SPIKE_THRESHOLD
  /\ asset_counters[2].count = SPIKE_THRESHOLD
  /\ asset_counters[2].last_alert_count = 0
  /\ event.asset_id = 1
  /\ spikes = <<>> /\ broadcasts = <<>>
  /\ loop.add_spike = <<>> /\ loop.created = <<>>
  /\ queue = <<>>

\* C39 (mapping precedes subscription): in every reachable state every
\* instrument id in the chunk of a worker is a key of the engine's asset_map,
\* so run_async's test of a subscribed instrument against the map succeeds.
C39_MappingPrecedesSubscription == Chunked \subseteq DOMAIN asset_map

\* a refresh handed ids to a worker that had room and put the rest in the
\* chunk of a new worker; the chunks hold all of them
C39_Witness ==
  /\ rebalance.called
  /\ \E i \in 1..Len(rebalance.given) : rebalance.given[i] # <<>>
  /\ rebalance.chunks # <<>>
  /\ Range(rebalance.new_ids) \subseteq Chunked
  /\ Range(rebalance.new_ids) \subseteq DOMAIN asset_map

\* C32 (reconnect forever): a worker whose running flag is true is always
\* somewhere in its loop: newly created, connecting, streaming, back at the
\* loop test or asleep in the except branch; a step changes the state of at
\* most one worker; and a worker whose connection has ended, by run_forever
\* returning or by an exception, attempts to connect again.
C32_ReconnectForever ==
  /\ [](\A w \in 1..Len(workers) :
          workers[w].running =>
            workers[w].pc \in {"created", "connecting", "streaming", "returned", "backoff"})
  /\ [][ /\ Len(workers') = Len(workers)
         /\ \A w, v \in 1..Len(workers) :
              (w # v /\ workers'[w] # workers[w]) => workers'[v] = workers[v] ]_vars
  /\ \A w \in WorkerIds :
       workers[w].pc \in {"returned", "backoff"} ~> workers[w].pc = "connecting"

\* a worker is connecting again after MaxAttempts attempts in a row raised,
\* while another worker is as it was constructed
C32_Witness ==
  \E w, v \in 1..Len(workers) :
    /\ workers[w].pc = "connecting"
    /\ workers[w].reconnect_attempts = MaxAttempts
    /\ v # w
    /\ workers[v] = NewWorker(workers[v].chunk)

\* the step is on_open of worker w, its send included
Opened(w) ==
  /\ workers[w].pc = "connecting"
  /\ workers'[w].pc = "streaming"
  /\ workers'[w].subscribed

\* C33 (full resubscription on connect): on_open sends one subscription, of
\* the whole chunk the worker has at that moment; a chunk never loses an id;
\* subscribe_additional_assets on a worker whose connection is not open
\* appends the ids to the chunk and sends nothing; so the subscriptions sent
\* on an open connection, the first of them by on_open, are together the chunk.
C33_FullResubscription ==
  /\ [](\A w \in 1..Len(workers) :
          (workers[w].pc = "streaming" /\ workers[w].subscribed) =>
            /\ workers[w].sent # <<>>
            /\ Flatten(workers[w].sent) = workers[w].chunk)
  /\ [][ \A w \in 1..Len(workers) :
           /\ Opened(w) =>
                /\ workers'[w].sent = <<workers[w].chunk>>
                /\ workers'[w].chunk = workers[w].chunk
           /\ SubSeq(workers'[w].chunk, 1, Len(workers[w].chunk)) = workers[w].chunk
           /\ (rebalance' # rebalance /\ rebalance'.given[w] # <<>>
                 /\ workers[w].ws /\ workers[w].pc # "streaming") =>
                /\ workers'[w].chunk = workers[w].chunk \o rebalance'.given[w]
                /\ workers'[w].sent = workers[w].sent
                /\ workers'[w].pc = workers[w].pc ]_vars

\* a worker whose connection is open and whose only subscription, sent by
\* on_open, lists the ids the last refresh handed to it
C33_Witness ==
  /\ rebalance.called
  /\ \E w \in 1..Len(rebalance.given) :
       /\ rebalance.given[w] # <<>>
       /\ workers[w].pc = "streaming"
       /\ workers[w].subscribed
       /\ workers[w].sent = <<workers[w].chunk>>
       /\ Range(rebalance.given[w]) \subseteq Range(workers[w].sent[1])

\* C34 (catalog fetch termination): a call of fetch_all_markets returns, also
\* when every page request fails.
C34_FetchTerminates ==
  call.fn = "fetch_all_markets" ~> (call.fn = "fetch_all_markets" /\ call.returned)

====
